---- MODULE Spec2Model ----
(***************************************************************************)
(* Temporal cleanup of a quaternion rotation stream (frankmocap/           *)
(* pkl_to_npz.py) and cross-skeleton retargeting (npz_to_glb.py).          *)
(*                                                                         *)
(* Numbers.  Every rotation of the model is a rotation about one fixed     *)
(* axis (the x axis), so a unit quaternion [w, x, 0, 0] is the point       *)
(* (cos h, sin h) of the unit circle and is held as its half-angle h, an   *)
(* integer number of ticks in 0 .. Full-1.  q and -q are h and h + Half.   *)
(* One tick of half-angle is DegPerTick degrees of rotation angle.  On     *)
(* this circle dot(a, b) = cos(b - a), arccos(|dot|) is the angle folded   *)
(* into a quarter turn and SLERP is linear in h, so comparisons against    *)
(* the code's thresholds are exact.  NaN is the result of a division by    *)
(* zero.                                                                   *)
(***************************************************************************)
EXTENDS Integers, Sequences, FiniteSets, TLC

\* ------------------------------------------------------------ bounds
MaxFrames == 4
NumAngles == 6

\* ------------------------------------------------- program constants
Pass1Deg       == 45
Pass2Deg       == 35
MaxDegPerFrame == 30
MaxAngleDeg    == 120
BodyJoints     == 24

\* ------------------------------------------------------- the lattice
RECURSIVE GCD(_, _)
GCD(a, b) == IF b = 0 THEN a ELSE GCD(b, a % b)

\* The coarsest resolution at which every threshold of the code is a tick.
DegPerTick == GCD(GCD(Pass1Deg, Pass2Deg), GCD(MaxDegPerFrame, MaxAngleDeg))
Full    == 720 \div DegPerTick
Half    == Full \div 2
Quarter == Full \div 4

NaN == -1
Identity == 0

Abs(x) == IF x < 0 THEN -x ELSE x
Min(a, b) == IF a < b THEN a ELSE b
SetMax(S) == CHOOSE x \in S : \A y \in S : y <= x

Norm(h) == h % Full
Neg(q) == IF q = NaN THEN NaN ELSE Norm(q + Half)

\* sign of np.dot(a, b) = cos(b - a): 1, 0 or -1
DotSign(a, b) ==
    LET d == Norm(b - a)
    IN  IF d < Quarter \/ d > Full - Quarter THEN 1
        ELSE IF d = Quarter \/ d = Full - Quarter THEN 0
        ELSE -1

\* np.dot(a, b) < 0; a comparison with NaN is false
DotNegative(a, b) == a # NaN /\ b # NaN /\ DotSign(a, b) = -1

\* degrees of 2 * arccos(clip(|dot(a, b)|, 0, 1))
DeltaDeg(a, b) ==
    LET f == Norm(b - a) % Half
    IN  DegPerTick * Min(f, Half - f)

\* degrees of 2 * arccos(clip(|w|, 0, 1))
AngleDeg(q) == DeltaDeg(Identity, q)

\* quats.shape: the model keeps the tracks of a few joints of the skeleton,
\* the last joint among them
n_joints_of(quats) == SetMax(DOMAIN quats) + 1
n_frames_of(quats) == Len(quats[0])

\* ---------------------------------------------------- continuity fixer
RECURSIVE fix_track(_, _)

\* the comparison made against the frame as it was before the pass
fix_track_unfixed_prev(tr, i) ==
    [k \in 1..Len(tr) |->
        IF k >= i /\ DotNegative(tr[k], tr[k - 1]) THEN Neg(tr[k]) ELSE tr[k]]

\* frames i .. n of one joint, frame i-1 already fixed: quats[i, j] *= -1
fix_track(tr, i) ==
    IF i > Len(tr) THEN tr
    ELSE fix_track(IF DotNegative(tr[i], tr[i - 1])
                   THEN [tr EXCEPT ![i] = Neg(tr[i])]
                   ELSE tr,
                   i + 1)

fix_quaternion_signs(quats) ==
    [j \in DOMAIN quats |-> fix_track(quats[j], 2)]

\* ------------------------------------------------------------- SLERP
\* q_to, negated when dot(q_from, q_to) < 0, as a signed step from q_from
\* (-Quarter .. Quarter ticks)
SignedStep(q_from, q_to) ==
    LET t == IF DotNegative(q_from, q_to) THEN Neg(q_to) ELSE q_to
        d == Norm(t - q_from)
    IN  IF d <= Quarter THEN d ELSE d - Full

\* n / d rounded to the nearest integer (d > 0)
RoundDiv(n, d) == (2 * n + d) \div (2 * d)

\* the finger joints alone, the wrists left out
hand_joints_fingers_only(n_joints) == 25..(n_joints - 1)

\* the hand joints of a skeleton of n_joints joints
hand_joints(n_joints) == (20..21) \cup (25..(n_joints - 1))
\* the limiter taking the first finger joint with the wrists
wrist_joints_and_index == {20, 21, 25}
wrist_joints == {20, 21}

\* ---------------------------------------------------- outlier rejector
\* the threshold left in degrees while the delta is in radians
outliers_of_no_radians(tr, max_delta_deg) ==
    {i \in 2..Len(tr) : DeltaDeg(tr[i - 1], tr[i]) * 314 > max_delta_deg * 18000}

\* the detection loop marking frame i only when frames i-1 and i+1 agree
outliers_of_forward_confirmed(tr, max_delta_deg) ==
    LET n == Len(tr)
    IN  {i \in 2..n :
            /\ tr[i - 1] # NaN /\ tr[i] # NaN
            /\ DeltaDeg(tr[i - 1], tr[i]) > max_delta_deg
            /\ i < n => DeltaDeg(tr[i - 1], tr[i + 1]) < max_delta_deg}

\* the detection loop started at frame 0, which is compared with frame 1
outliers_of_from_frame_zero(tr, max_delta_deg) ==
    {i \in 1..Len(tr) :
        LET k == IF i = 1 THEN 2 ELSE i - 1
        IN  /\ tr[k] # NaN /\ tr[i] # NaN
            /\ DeltaDeg(tr[k], tr[i]) > max_delta_deg}

\* the frames of one joint marked in the detection loop (1-based frames)
outliers_of(tr, max_delta_deg) ==
    LET n == Len(tr)
        marked(i) ==
            IF tr[i - 1] # NaN /\ tr[i] # NaN      \* nan > x is false
               /\ DeltaDeg(tr[i - 1], tr[i]) > max_delta_deg
            THEN IF i < n
                 THEN IF DeltaDeg(tr[i - 1], tr[i + 1]) < max_delta_deg
                      THEN TRUE
                      ELSE TRUE
                 ELSE TRUE
            ELSE FALSE
    IN  {i \in 2..n : marked(i)}

RECURSIVE before_of(_, _)
before_of(outliers, b) ==
    IF b >= 1 /\ b \in outliers THEN before_of(outliers, b - 1) ELSE b

RECURSIVE after_of(_, _, _)
after_of(outliers, a, n) ==
    IF a <= n /\ a \in outliers THEN after_of(outliers, a + 1, n) ELSE a

\* SLERP between quats[before] and quats[after] at t = num / den
slerp_no_lerp_guard(q0, q1, num, den) ==
    LET d == SignedStep(q0, q1)
    IN  IF q0 = NaN \/ q1 = NaN \/ d = 0 THEN NaN
        ELSE Norm(q0 + RoundDiv(num * d, den))

slerp(q0, q1, num, den) ==
    LET d == SignedStep(q0, q1)
    IN  IF q0 = NaN \/ q1 = NaN THEN NaN
        ELSE IF d = 0
             THEN q0                               \* dot > 0.9995: lerp, normalised
             ELSE Norm(q0 + RoundDiv(num * d, den)) \* sin(theta) > 0

\* the repair with the clean frame nearest in time taken alone
repair_nearest_only(tr, outliers, idx) ==
    LET n      == Len(tr)
        before == before_of(outliers, idx - 1)
        after  == after_of(outliers, idx + 1, n)
    IN  IF before < 1 /\ after > n THEN tr
        ELSE IF before < 1 THEN [tr EXCEPT ![idx] = tr[after]]
        ELSE IF after > n THEN [tr EXCEPT ![idx] = tr[before]]
        ELSE [tr EXCEPT ![idx] = IF idx - before <= after - idx
                                 THEN tr[before] ELSE tr[after]]

\* the repair interpolating between the two neighbouring frames, marked or
\* not
repair_between_neighbours(tr, outliers, idx) ==
    LET n == Len(tr)
    IN  IF idx = 1 /\ idx = n THEN tr
        ELSE IF idx = 1 THEN [tr EXCEPT ![idx] = tr[idx + 1]]
        ELSE IF idx = n THEN [tr EXCEPT ![idx] = tr[idx - 1]]
        ELSE [tr EXCEPT ![idx] = slerp(tr[idx - 1], tr[idx + 1], 1, 2)]

\* the repair of outlier frame idx, in place
repair(tr, outliers, idx) ==
    LET n      == Len(tr)
        before == before_of(outliers, idx - 1)
        after  == after_of(outliers, idx + 1, n)
    IN  IF before < 1 /\ after > n THEN tr
        ELSE IF before < 1 THEN [tr EXCEPT ![idx] = tr[after]]
        ELSE IF after > n THEN [tr EXCEPT ![idx] = tr[before]]
        ELSE [tr EXCEPT ![idx] = slerp(tr[before], tr[after],
                                       idx - before, after - before)]

\* for idx in sorted(outliers), from frame idx on
RECURSIVE repair_from(_, _, _)
repair_from(tr, outliers, idx) ==
    IF idx > Len(tr) THEN tr
    ELSE repair_from(IF idx \in outliers THEN repair(tr, outliers, idx) ELSE tr,
                     outliers, idx + 1)

reject_track(tr, max_delta_deg) ==
    LET outliers == outliers_of(tr, max_delta_deg)
    IN  IF outliers = {} THEN tr ELSE repair_from(tr, outliers, 1)

\* one outlier set for all the hand joints: the frames in which any hand
\* joint jumps
reject_hand_outliers_shared_outliers(quats, max_delta_deg) ==
    IF n_joints_of(quats) <= BodyJoints \/ n_frames_of(quats) < 3 THEN quats
    ELSE LET hands == DOMAIN quats \cap hand_joints(n_joints_of(quats))
             outliers == UNION {outliers_of(quats[j], max_delta_deg) : j \in hands}
         IN  [j \in DOMAIN quats |->
                IF j \in hands /\ outliers # {}
                THEN repair_from(quats[j], outliers, 1)
                ELSE quats[j]]

reject_hand_outliers(quats, max_delta_deg) ==
    IF n_joints_of(quats) <= BodyJoints \/ n_frames_of(quats) < 3 THEN quats
    ELSE [j \in DOMAIN quats |->
            IF j \in hand_joints(n_joints_of(quats))
            THEN reject_track(quats[j], max_delta_deg)
            ELSE quats[j]]

\* ------------------------------------------- angular-velocity limiter
\* the step fraction taken from the half-angle arccos(dot) instead of the
\* rotation angle 2 * arccos(dot)
slerp_step_half_angle(q_from, q_to, max_deg) ==
    LET d == SignedStep(q_from, q_to)
    IN  IF q_from = NaN \/ q_to = NaN THEN NaN
        ELSE IF DegPerTick * Abs(d) <= 2 * max_deg
             THEN Norm(q_from + d)
             ELSE Norm(q_from + (IF d > 0 THEN 1 ELSE -1) * ((2 * max_deg) \div DegPerTick))

\* SLERP from q_from toward q_to, limited to max_deg of rotation
slerp_step(q_from, q_to, max_deg) ==
    LET d == SignedStep(q_from, q_to)
    IN  IF q_from = NaN \/ q_to = NaN THEN NaN
        ELSE IF DegPerTick * Abs(d) <= max_deg
             THEN Norm(q_from + d)
             ELSE Norm(q_from + (IF d > 0 THEN 1 ELSE -1) * (max_deg \div DegPerTick))

\* every frame limited against the frame before it as it came in, not as
\* the pass left it
forward_pass_from_unlimited(tr, i, max_deg) ==
    [k \in 1..Len(tr) |->
        IF k < i THEN tr[k] ELSE slerp_step(tr[k - 1], tr[k], max_deg)]

RECURSIVE forward_pass(_, _, _)
forward_pass(tr, i, max_deg) ==
    IF i > Len(tr) THEN tr
    ELSE forward_pass([tr EXCEPT ![i] = slerp_step(tr[i - 1], tr[i], max_deg)],
                      i + 1, max_deg)

RECURSIVE backward_pass(_, _, _)
backward_pass(tr, i, max_deg) ==
    IF i < 1 THEN tr
    ELSE backward_pass([tr EXCEPT ![i] = slerp_step(tr[i + 1], tr[i], max_deg)],
                       i - 1, max_deg)

limit_track(tr, max_deg) ==
    backward_pass(forward_pass(tr, 2, max_deg), Len(tr) - 1, max_deg)

limit_angular_velocity(quats, max_deg_per_frame) ==
    IF n_joints_of(quats) <= BodyJoints \/ n_frames_of(quats) < 2 THEN quats
    ELSE [j \in DOMAIN quats |->
            IF j \in wrist_joints
            THEN limit_track(quats[j], max_deg_per_frame)
            ELSE quats[j]]

\* ------------------------------------------------------ rotation clamp
\* the excess over the maximum halved instead of removed
clamp_quat_damped(q, max_angle_deg) ==
    IF q # NaN /\ AngleDeg(q) > max_angle_deg
    THEN LET a == (max_angle_deg + (AngleDeg(q) - max_angle_deg + DegPerTick) \div 2)
                     \div DegPerTick
         IN  IF q < Half THEN a ELSE Full - a
    ELSE q

\* one frame: [cos(half), x * factor, y * factor, z * factor] when the angle
\* exceeds the maximum (old_sin > 1e-8 then); x keeps its sign, w becomes
\* cos(half) > 0
clamp_quat(q, max_angle_deg) ==
    IF q # NaN /\ AngleDeg(q) > max_angle_deg
    THEN IF q < Half                          \* x = sin h > 0
         THEN max_angle_deg \div DegPerTick
         ELSE Full - (max_angle_deg \div DegPerTick)
    ELSE q

clamp_hand_rotations(quats, max_angle_deg) ==
    IF n_joints_of(quats) <= BodyJoints THEN quats
    ELSE [j \in DOMAIN quats |->
            IF j \in hand_joints(n_joints_of(quats))
            THEN [i \in 1..Len(quats[j]) |-> clamp_quat(quats[j][i], max_angle_deg)]
            ELSE quats[j]]

\* ------------------------------------------------ polynomial smoothing
\* Savitzky-Golay, polynomial order 2: the rows of the least-squares
\* projection on a window (row r+1 evaluates the fit at window position r),
\* as integer numerators over SGDen(w)
SGDen(w) ==
    CASE w = 3 -> 1000 [] w = 5 -> 35 [] w = 7 -> 42 [] w = 9 -> 2310
      [] w = 11 -> 2145

SGRows(w) ==
    CASE w = 3 ->       \* the parabola through three points is the points
    <<<<1000, 0, 0>>,
       <<0, 1000, 0>>,
       <<0, 0, 1000>>>>
      [] w = 5 ->
    <<<<31, 9, -3, -5, 3>>,
       <<9, 13, 12, 6, -5>>,
       <<-3, 12, 17, 12, -3>>,
       <<-5, 6, 12, 13, 9>>,
       <<3, -5, -3, 9, 31>>>>
      [] w = 7 ->
    <<<<32, 15, 3, -4, -6, -3, 5>>,
       <<15, 12, 9, 6, 3, 0, -3>>,
       <<3, 9, 12, 12, 9, 3, -6>>,
       <<-4, 6, 12, 14, 12, 6, -4>>,
       <<-6, 3, 9, 12, 12, 9, 3>>,
       <<-3, 0, 3, 6, 9, 12, 15>>,
       <<5, -3, -6, -4, 3, 15, 32>>>>
      [] w = 9 ->
    <<<<1526, 882, 378, 14, -210, -294, -238, -42, 294>>,
       <<882, 644, 441, 273, 140, 42, -21, -49, -42>>,
       <<378, 441, 464, 447, 390, 293, 156, -21, -238>>,
       <<14, 273, 447, 536, 540, 459, 293, 42, -294>>,
       <<-210, 140, 390, 540, 590, 540, 390, 140, -210>>,
       <<-294, 42, 293, 459, 540, 536, 447, 273, 14>>,
       <<-238, -21, 156, 293, 390, 447, 464, 441, 378>>,
       <<-42, -49, -21, 42, 140, 273, 441, 644, 882>>,
       <<294, -42, -238, -294, -210, 14, 378, 882, 1526>>>>
      [] w = 11 ->
    <<<<1245, 810, 450, 165, -45, -180, -240, -225, -135, 30, 270>>,
       <<810, 597, 414, 261, 138, 45, -18, -51, -54, -27, 30>>,
       <<450, 414, 373, 327, 276, 220, 159, 93, 22, -54, -135>>,
       <<165, 261, 327, 363, 369, 345, 291, 207, 93, -51, -225>>,
       <<-45, 138, 276, 369, 417, 420, 378, 291, 159, -18, -240>>,
       <<-180, 45, 220, 345, 420, 445, 420, 345, 220, 45, -180>>,
       <<-240, -18, 159, 291, 378, 420, 417, 369, 276, 138, -45>>,
       <<-225, -51, 93, 207, 291, 345, 369, 363, 327, 261, 165>>,
       <<-135, -54, 22, 93, 159, 220, 276, 327, 373, 414, 450>>,
       <<30, -27, -54, -51, -18, 45, 138, 261, 414, 597, 810>>,
       <<270, 30, -135, -225, -240, -180, -45, 165, 450, 810, 1245>>>>

\* savgol_filter(x, w, 2)[i], mode 'interp', as a numerator over SGDen(w):
\* the first and last w \div 2 frames are read off the polynomial fitted to
\* the first and last window, the others off their own centred window.
\* val(k) is x[k], 1-based.
SavGolAt(val(_), n, w, i) ==
    LET half  == w \div 2
        first == IF i <= half THEN 1
                 ELSE IF i > n - half THEN n - w + 1
                 ELSE i - half
        row   == SGRows(w)[i - first + 1]
        RECURSIVE sum(_)
        sum(k) == IF k > w THEN 0 ELSE row[k] * val(first + k - 1) + sum(k + 1)
    IN  sum(1)

\* the largest odd number <= n, capped: min(cap, n if n % 2 == 1 else n - 1)
OddWindow(cap, n) == Min(cap, IF n % 2 = 1 THEN n ELSE n - 1)

\* --------------------------------------------- rotation matrix -> quaternion
\* A rotation matrix about the model's axis is its angle in ticks of
\* DegPerTick degrees, 0 .. Half - 1 (the quaternion's half-angle tick r or
\* r + Half).
MatrixAngles == 0..(Half - 1)

\* _CAMERA_FIX @ rotmats[0]: diag(1, -1, -1) is the half turn about x
camera_fix(r) == (r + Quarter) % Half

\* Rotation.from_matrix(...).as_quat(): w > 0 when the trace is the largest
\* of (m00, m11, m22, trace), that is below 90 and above 270 degrees; else
\* the x component is the positive one
from_matrix(r) == IF 4 * r > 3 * Half THEN r + Half ELSE r

rotmats_to_quats(all_rotmats) ==
    [j \in DOMAIN all_rotmats |->
        [i \in 1..Len(all_rotmats[j]) |->
            from_matrix(IF j = 0 THEN camera_fix(all_rotmats[j][i])
                        ELSE all_rotmats[j][i])]]

\* ------------------------------------------------ temporal smoother
\* 10000 * cos of 0 .. Quarter ticks (2.5 degrees of half-angle each)
CosTable ==
    <<10000, 9990, 9962, 9914, 9848, 9763, 9659, 9537, 9397, 9239, 9063, 8870,
      8660, 8434, 8192, 7934, 7660, 7373, 7071, 6756, 6428, 6088, 5736, 5373,
      5000, 4617, 4226, 3827, 3420, 3007, 2588, 2164, 1736, 1305, 872, 436, 0>>

\* the w and x components of the unit quaternion at tick h, times 10000
Cos(h) ==
    LET u == Norm(h)
    IN  IF u <= Quarter THEN CosTable[u + 1]
        ELSE IF u <= Half THEN -CosTable[Half - u + 1]
        ELSE IF u <= Half + Quarter THEN -CosTable[u - Half + 1]
        ELSE CosTable[Full - u + 1]
Sin(h) == Cos(h - Quarter)

\* the last tick of the first quadrant at or below the direction of (a, b),
\* a >= 0, b >= 0, not both 0
RECURSIVE quadrant_floor(_, _, _, _)
quadrant_floor(a, b, lo, hi) ==
    IF lo = hi THEN lo
    ELSE LET mid == (lo + hi + 1) \div 2
         IN  IF b * Cos(mid) - a * Sin(mid) >= 0
             THEN quadrant_floor(a, b, mid, hi)
             ELSE quadrant_floor(a, b, lo, mid - 1)

\* the tick nearest to the direction of the vector (w, x) # (0, 0)
direction(w, x) ==
    LET base == IF w >= 0 /\ x >= 0 THEN 0
                ELSE IF w < 0 /\ x >= 0 THEN Quarter
                ELSE IF w < 0 THEN Half
                ELSE Half + Quarter
        a    == IF base = 0 THEN w ELSE IF base = Quarter THEN x
                ELSE IF base = Half THEN -w ELSE -x
        b    == IF base = 0 THEN x ELSE IF base = Quarter THEN -w
                ELSE IF base = Half THEN -x ELSE w
        f    == quadrant_floor(a, b, 0, Quarter)
        near == IF f < Quarter /\ a * Cos(f + 1) + b * Sin(f + 1) > a * Cos(f) + b * Sin(f)
                THEN f + 1 ELSE f
    IN  Norm(base + near)

\* Whether sum_k row[k] * q[k] is the zero vector, exactly: with z the unit
\* quaternion at one tick, z^Half = -1 and z^(Full/3) = z^(Full/6) - 1, so the
\* sum is zero iff its coordinates on 1, z, .., z^(Full/3 - 1) are.
zero_sum(row, win) ==
    LET w       == Len(win)
        third   == Full \div 3
        sixth   == Full \div 6
        sgn(k)  == IF win[k] >= Half THEN -row[k] ELSE row[k]
        e(k)    == win[k] % Half
        \* the coordinate of term k on z^i, i < third
        part(k, i) ==
            IF e(k) < third
            THEN IF e(k) = i THEN sgn(k) ELSE 0
            ELSE IF e(k) - sixth = i THEN sgn(k)
                 ELSE IF e(k) - third = i THEN -sgn(k)
                 ELSE 0
        RECURSIVE coord(_, _)
        coord(i, k) == IF k > w THEN 0 ELSE part(k, i) + coord(i, k + 1)
        touched == UNION {IF e(k) < third THEN {e(k)}
                          ELSE {e(k) - sixth, e(k) - third} : k \in 1..w}
    IN  \A i \in touched : coord(i, 1) = 0

\* a vector off the unit sphere
NonUnit == Full

\* the filtered components left as they are: of norm 1 only on a window of
\* one repeated quaternion
renormalize_skipped(row, win) ==
    IF \E k \in 1..Len(win) : win[k] = NaN THEN NaN
    ELSE IF \A k \in 1..Len(win) : win[k] = win[1] THEN win[1]
    ELSE NonUnit

\* one frame of one joint: the four components filtered with the row of the
\* frame, then divided by the norm (0 / 0 = nan)
renormalize(row, win) ==
    IF \E k \in 1..Len(win) : win[k] = NaN THEN NaN
    ELSE IF \A k \in 1..Len(win) : win[k] = win[1] THEN win[1]
    ELSE IF zero_sum(row, win) THEN NaN
    ELSE LET RECURSIVE wsum(_)
             wsum(k) == IF k > Len(win) THEN 0 ELSE row[k] * Cos(win[k]) + wsum(k + 1)
             RECURSIVE xsum(_)
             xsum(k) == IF k > Len(win) THEN 0 ELSE row[k] * Sin(win[k]) + xsum(k + 1)
         IN  direction(wsum(1) \div 1000, xsum(1) \div 1000)

smooth_track(tr, w) ==
    LET n    == Len(tr)
        half == w \div 2
        first(i) == IF i <= half THEN 1
                    ELSE IF i > n - half THEN n - w + 1
                    ELSE i - half
    IN  [i \in 1..n |->
            renormalize(SGRows(w)[i - first(i) + 1],
                        [k \in 1..w |-> tr[first(i) + k - 1]])]

\* the window of joint j without the early return "n_frames < window"
smooth_window_no_early_return(j, n_frames, window, hand_window) ==
    LET w == OddWindow(IF j >= 20 THEN hand_window ELSE window, n_frames)
    IN  IF w < 3 THEN 0 ELSE w

\* the window joint j is filtered with, 0 when its track is left as it is
smooth_window(j, n_frames, window, hand_window) ==
    IF n_frames < window THEN 0
    ELSE LET w == OddWindow(IF j >= 20 THEN hand_window ELSE window, n_frames)
         IN  IF w < 3 THEN 0 ELSE w

smooth_quaternions(quats, window, hand_window) ==
    [j \in DOMAIN quats |->
        LET w == smooth_window(j, n_frames_of(quats), window, hand_window)
        IN  IF w = 0 THEN quats[j] ELSE smooth_track(quats[j], w)]

\* -------------------------------------------- root translation estimator
\* an optional value is a sequence: <<>> for None, else the value (a number
\* as a sequence of one element)
None == <<>>
CropSize == 224

\* what extract_root_translation gives: no translation (None), an exception,
\* or the track
NoTranslation == [kind |-> "none", den |-> 1, t |-> <<>>]
Raised        == [kind |-> "raised", den |-> 1, t |-> <<>>]

RECURSIVE SumOver(_, _, _)
SumOver(f(_), i, n) == IF i > n THEN 0 ELSE f(i) + SumOver(f, i + 1, n)

\* translations[:, c] = savgol_filter(translations[:, c], window, 2), when the
\* window reaches 5.  A track is its integer numerators t over one
\* denominator den; den = 0 is a division by zero (x and y not finite).
smooth_translation(tr) ==
    LET n      == Len(tr.t)
        window == OddWindow(11, n)
    IN  IF window >= 5
        THEN [kind |-> "track", den |-> tr.den * SGDen(window),
              t   |-> [i \in 1..n |->
                         [c \in 1..3 |->
                            LET val(k) == tr.t[k][c]
                            IN  SavGolAt(val, n, window, i)]]]
        ELSE tr

\* the fallback without "translations -= translations[0]"
fallback_translation_absolute(frames) ==
    [kind |-> "track", den |-> 1,
     t   |-> [i \in 1..Len(frames) |->
                <<frames[i].camera[2], -frames[i].camera[3], 0>>]]

\* no bbox data: (tx, -ty, 0), relative to frame 0
fallback_translation(frames) ==
    [kind |-> "track", den |-> 1,
     t   |-> [i \in 1..Len(frames) |->
                <<frames[i].camera[2] - frames[1].camera[2],
                  -frames[i].camera[3] - (-frames[1].camera[3]),
                  0>>]]

\* bbox data: the image-space root position, in pixels times two
\* (x_crop = (tx + 1) / 2 * 224, x_img = x_crop / sr + tl_x), its displacement
\* from frame 0 and the average pixels per unit s_avg * (224 / sr_avg) / 2
bbox_translation(frames) ==
    LET n         == Len(frames)
        x_img2(i) == ((frames[i].camera[2] + 1) * CropSize) \div frames[i].bbox_scale_ratio[1]
                        + 2 * frames[i].bbox_top_left[1]
        y_img2(i) == ((1 - frames[i].camera[3]) * CropSize) \div frames[i].bbox_scale_ratio[1]
                        + 2 * frames[i].bbox_top_left[2]
        s(i)      == frames[i].camera[1]
        sr(i)     == frames[i].bbox_scale_ratio[1]
        s_sum     == SumOver(s, 1, n)
        sr_sum    == SumOver(sr, 1, n)
    IN  \* dx / pix_per_unit = (dx2 / 2) * sr_sum / (s_sum * 112)
        [kind |-> "track", den |-> s_sum * CropSize,
         t   |-> [i \in 1..n |->
                    <<(x_img2(i) - x_img2(1)) * sr_sum,
                      -(y_img2(i) - y_img2(1)) * sr_sum,
                      0>>]]

\* the estimator without its test of the first frame's camera
extract_root_translation_camera_unchecked(frames) ==
    IF frames[1].bbox_top_left # None /\ frames[1].bbox_scale_ratio # None
    THEN IF \E i \in 1..Len(frames) :
                \/ frames[i].camera = None
                \/ frames[i].bbox_top_left = None
                \/ frames[i].bbox_scale_ratio = None
         THEN Raised
         ELSE smooth_translation(bbox_translation(frames))
    ELSE IF \E i \in 1..Len(frames) : frames[i].camera = None
         THEN Raised
         ELSE smooth_translation(fallback_translation(frames))

extract_root_translation(frames) ==
    IF frames[1].camera = None THEN NoTranslation
    ELSE IF frames[1].bbox_top_left # None /\ frames[1].bbox_scale_ratio # None
         THEN IF \E i \in 1..Len(frames) :
                     \/ frames[i].camera = None
                     \/ frames[i].bbox_top_left = None
                     \/ frames[i].bbox_scale_ratio = None
              THEN Raised        \* arithmetic on an array holding None
              ELSE smooth_translation(bbox_translation(frames))
         ELSE IF \E i \in 1..Len(frames) : frames[i].camera = None
              THEN Raised        \* s, tx, ty = None
              ELSE smooth_translation(fallback_translation(frames))

\* -------------------------------------------- bone mapping (npz_to_glb.py)
SMPLX_JOINT_NAMES ==
    <<"Hips", "LeftUpLeg", "RightUpLeg", "Spine", "LeftLeg", "RightLeg",
      "Chest", "LeftFoot", "RightFoot", "UpperChest", "LeftToeBase",
      "RightToeBase", "Neck", "LeftShoulder", "RightShoulder", "Head",
      "LeftArm", "RightArm", "LeftForeArm", "RightForeArm", "LeftHand",
      "RightHand", "Jaw", "LeftEye", "RightEye", "LeftIndex1", "LeftIndex2",
      "LeftIndex3", "LeftMiddle1", "LeftMiddle2", "LeftMiddle3",
      "LeftPinky1", "LeftPinky2", "LeftPinky3", "LeftRing1", "LeftRing2",
      "LeftRing3", "LeftThumb1", "LeftThumb2", "LeftThumb3", "RightIndex1",
      "RightIndex2", "RightIndex3", "RightMiddle1", "RightMiddle2",
      "RightMiddle3", "RightPinky1", "RightPinky2", "RightPinky3",
      "RightRing1", "RightRing2", "RightRing3", "RightThumb1",
      "RightThumb2", "RightThumb3">>

SMPL_JOINT_NAMES ==
    <<"Hips", "LeftUpLeg", "RightUpLeg", "Spine", "LeftLeg", "RightLeg",
      "Chest", "LeftFoot", "RightFoot", "UpperChest", "LeftToeBase",
      "RightToeBase", "Neck", "LeftShoulder", "RightShoulder", "Head",
      "LeftArm", "RightArm", "LeftForeArm", "RightForeArm", "LeftHand",
      "RightHand", "LeftHandEnd", "RightHandEnd">>

\* both chest joints renamed to the one bone
_SMPL_TO_MIXAMO_RENAME_one_spine ==
    ("Chest" :> "Spine1") @@ ("UpperChest" :> "Spine1")
_SMPL_TO_MIXAMO_RENAME == ("Chest" :> "Spine1") @@ ("UpperChest" :> "Spine2")
_FINGER_NAMES == <<"Thumb", "Index", "Middle", "Ring", "Pinky">>
_SKIP_JOINTS == {"Jaw", "LeftEye", "RightEye"}
Sides  == <<"Left", "Right">>
Digits == <<"1", "2", "3">>

\* no bone: the joint stays out of the mapping
NoBone == ""

\* the finger loop: finger, side, digit in loop order, k = 0 .. 29; the first
\* (finger, side, digit) whose smpl_finger is the name and whose mixamo_finger
\* is a target bone
smpl_finger(k) ==
    Sides[((k \div 3) % 2) + 1] \o _FINGER_NAMES[(k \div 6) + 1] \o Digits[(k % 3) + 1]
mixamo_finger(k) ==
    Sides[((k \div 3) % 2) + 1] \o "Hand" \o _FINGER_NAMES[(k \div 6) + 1]
        \o Digits[(k % 3) + 1]

RECURSIVE finger_match(_, _, _)
finger_match(name, mixamo_bone_names, k) ==
    IF k >= Len(_FINGER_NAMES) * Len(Sides) * Len(Digits) THEN NoBone
    ELSE IF name = smpl_finger(k) /\ mixamo_finger(k) \in mixamo_bone_names
         THEN mixamo_finger(k)
         ELSE finger_match(name, mixamo_bone_names, k + 1)

\* the loop body without the test of the skip set
resolve_joint_skip_ignored(name, mixamo_bone_names) ==
    IF /\ name \in DOMAIN _SMPL_TO_MIXAMO_RENAME
       /\ _SMPL_TO_MIXAMO_RENAME[name] \in mixamo_bone_names
    THEN _SMPL_TO_MIXAMO_RENAME[name]
    ELSE IF name \in mixamo_bone_names THEN name
    ELSE finger_match(name, mixamo_bone_names, 0)

\* the direct match tried before the rename table
resolve_joint_exact_first(name, mixamo_bone_names) ==
    IF name \in _SKIP_JOINTS THEN NoBone
    ELSE IF name \in mixamo_bone_names THEN name
    ELSE IF /\ name \in DOMAIN _SMPL_TO_MIXAMO_RENAME
            /\ _SMPL_TO_MIXAMO_RENAME[name] \in mixamo_bone_names
         THEN _SMPL_TO_MIXAMO_RENAME[name]
    ELSE finger_match(name, mixamo_bone_names, 0)

\* one iteration of the loop over the source joints
resolve_joint(name, mixamo_bone_names) ==
    IF name \in _SKIP_JOINTS THEN NoBone
    ELSE IF /\ name \in DOMAIN _SMPL_TO_MIXAMO_RENAME
            /\ _SMPL_TO_MIXAMO_RENAME[name] \in mixamo_bone_names
         THEN _SMPL_TO_MIXAMO_RENAME[name]
    ELSE IF name \in mixamo_bone_names THEN name
    ELSE finger_match(name, mixamo_bone_names, 0)

\* mapping: source joint index (from 0) -> target bone name
build_bone_mapping(smpl_joint_names, mixamo_bone_names) ==
    LET mapped == {idx \in 0..(Len(smpl_joint_names) - 1) :
                     resolve_joint(smpl_joint_names[idx + 1], mixamo_bone_names) # NoBone}
    IN  [idx \in mapped |-> resolve_joint(smpl_joint_names[idx + 1], mixamo_bone_names)]

\* ------------------------------------------------ npz_to_glb.py, main
\* root_translation[:, 0] *= 1.4, root_translation[:, 1] *= 1.0
TranslationScaleX == <<7, 5>>

scale_translation(tr) ==
    IF tr.kind # "track" THEN tr
    ELSE [kind |-> "track", den |-> tr.den * TranslationScaleX[2],
          t |-> [i \in 1..Len(tr.t) |->
                   <<tr.t[i][1] * TranslationScaleX[1],
                     tr.t[i][2] * TranslationScaleX[2],
                     tr.t[i][3] * TranslationScaleX[2]>>]]

\* the x components of _MANO_HAND_MEAN, in ticks of DegPerTick degrees
\* (Index 1-3, Middle 1-3, Pinky 1-3, Ring 1-3, Thumb 1-3)
_MANO_HAND_MEAN == <<0, 0, 0, 1, -1, 0, 2, 1, 1, 2, -1, 0, 0, -3, 0>>
_FINGER_JOINT_START_LEFT == 25
_FINGER_JOINTS_PER_HAND == 15

\* the mean added a second time
add_hand_mean_quat_twice(q, mean_rv) ==
    IF q = NaN THEN Identity
    ELSE LET c  == IF q > Quarter /\ q < Half + Quarter THEN Neg(q) ELSE q
             rv == IF c <= Quarter THEN c ELSE c - Full
         IN  Norm(rv + 2 * mean_rv)

\* one finger quaternion: made w >= 0, turned into a rotation vector, the
\* mean added, turned back; a nan quaternion fails "full_angle > 1e-10" and
\* is left at the initial (1, 0, 0, 0)
add_hand_mean_quat(q, mean_rv) ==
    IF q = NaN THEN Identity
    ELSE LET c  == IF q > Quarter /\ q < Half + Quarter THEN Neg(q) ELSE q
             rv == IF c <= Quarter THEN c ELSE c - Full
         IN  Norm(rv + mean_rv)

add_hand_mean_for_retarget(rotations, joint_names) ==
    IF Len(joint_names) <= BodyJoints THEN rotations
    ELSE [j \in DOMAIN rotations |->
            IF /\ j >= _FINGER_JOINT_START_LEFT
               /\ j < _FINGER_JOINT_START_LEFT + 2 * _FINGER_JOINTS_PER_HAND
               /\ j < Len(joint_names)
            THEN [i \in 1..Len(rotations[j]) |->
                    add_hand_mean_quat(rotations[j][i],
                        _MANO_HAND_MEAN[((j - _FINGER_JOINT_START_LEFT)
                                            % _FINGER_JOINTS_PER_HAND) + 1])]
            ELSE rotations[j]]

\* (w, x, y, z) -> (w, x, -z, y): a rotation about x has y = z = 0 and keeps
\* its four components
yup_to_zup_quaternions(quats) ==
    [j \in DOMAIN quats |-> [i \in 1..Len(quats[j]) |-> quats[j][i]]]

\* (x, y, z) -> (x, -z, y)
yup_to_zup_positions(tr) ==
    IF tr.kind # "track" THEN tr
    ELSE [tr EXCEPT !.t = [i \in 1..Len(tr.t) |->
                             <<tr.t[i][1], -tr.t[i][3], tr.t[i][2]>>]]

\* ------------------------------------------------ retarget_to_mixamo
\* An armature is its bones: name -> [rest, parent], rest the bone's rest
\* quaternion, parent a bone name or "" for a root bone.
\* bone_rest without the bones that have no parent
compute_rest_quats_roots_dropped(bones) ==
    [bone_rest   |-> [b \in {x \in DOMAIN bones : bones[x].parent # ""} |->
                        bones[b].rest],
     parent_rest |-> [b \in DOMAIN bones |->
                        IF bones[b].parent = "" THEN None
                        ELSE <<bones[bones[b].parent].rest>>]]

compute_rest_quats(bones) ==
    [bone_rest   |-> [b \in DOMAIN bones |-> bones[b].rest],
     parent_rest |-> [b \in DOMAIN bones |->
                        IF bones[b].parent = "" THEN None
                        ELSE <<bones[bones[b].parent].rest>>]]

\* a keyframe point as keyframe_points.add(n_frames) leaves it
Unfilled == -2

_HAND_INDICES == {20, 21} \cup (25..54)

\* pose_q = br_inv @ pr @ smpl_q with the rest quaternion not inverted
rest_local_uninverted(br, pr, smpl_q) ==
    IF smpl_q = NaN THEN NaN ELSE Norm(br + pr + smpl_q)

\* pose_q = br_inv @ pr @ smpl_q
rest_local(br, pr, smpl_q) ==
    IF smpl_q = NaN THEN NaN ELSE Norm(pr + smpl_q - br)

\* pose_q = br_inv @ smpl_q @ br: rotations about one axis commute
conjugation(br, smpl_q) ==
    IF smpl_q = NaN THEN NaN ELSE Norm(smpl_q + br - br)

\* the action: the rotation fcurves of the mapped joints (of the joints the
\* model keeps a track of) and the location fcurves of Hips
retarget_to_mixamo(bones, rotations, joint_names, root_translation) ==
    LET n_frames == n_frames_of(rotations)
        bone_map == build_bone_mapping(joint_names, DOMAIN bones)
        rests    == compute_rest_quats(bones)
        keys(idx) ==
            LET original == bone_map[idx]
                br == IF original \in DOMAIN rests.bone_rest
                      THEN <<rests.bone_rest[original]>> ELSE None
                pr == rests.parent_rest[original]
                use_rest_local == idx \in _HAND_INDICES /\ pr # None
            IN  [frame \in 1..n_frames |->
                    IF br = None THEN Unfilled
                    ELSE IF use_rest_local
                         THEN rest_local(br[1], pr[1], rotations[idx][frame])
                         ELSE conjugation(br[1], rotations[idx][frame])]
    IN  [rot |-> [idx \in DOMAIN bone_map \cap DOMAIN rotations |->
                    [bone |-> bone_map[idx], keys |-> keys(idx)]],
         loc |-> IF root_translation.kind = "track" /\ "Hips" \in DOMAIN bones
                 THEN [frame \in 1..n_frames |->
                         <<bones["Hips"].rest, root_translation.t[frame]>>]
                 ELSE <<>>,
         has_loc |-> root_translation.kind = "track" /\ "Hips" \in DOMAIN bones]

\* SMPL mode: the armature is built from the joints, every joint has a pose
\* bone and takes its rotations as they are
keyframe_animation(rotations, joint_names, root_translation) ==
    [rot |-> [j \in DOMAIN rotations |->
                [bone |-> joint_names[j + 1], keys |-> rotations[j]]],
     loc |-> IF root_translation.kind = "track"
             THEN [frame \in 1..n_frames_of(rotations) |->
                     <<Identity, root_translation.t[frame]>>]
             ELSE <<>>,
     has_loc |-> root_translation.kind = "track"]

\* ===================================================================
\* State
\* ===================================================================
VARIABLES
    quats,             \* the rotation track: joint -> sequence of frames
    input,             \* the track the run started from
    prev,              \* the track before the last operation
    op,                \* the operations applied so far, last one last
    frames,            \* per frame: camera, bbox_top_left, bbox_scale_ratio
    root_translation,  \* what extract_root_translation returned
    smpl_joint_names,  \* the source skeleton's joint names
    mixamo_bone_names, \* the target armature's bone names, prefix stripped
    bone_map,          \* what build_bone_mapping returned
    pc,                \* the stage a conversion has completed
    env,               \* what the run is given: body model, mode, FBX file
    npz,               \* the .npz file of pkl_to_npz.py
    action,            \* the animation of the Blender scene
    glb,               \* the .glb file of npz_to_glb.py
    files,             \* the prediction files of the input directory, sorted
    loaded,            \* what load_pkl_frames did with them
    stage,             \* the per-joint stage being run joint by joint
    pending            \* per joint: the loop iterations still to run

cleanupVars == <<quats, input, prev, op>>
rootVars == <<frames, root_translation>>
mapVars == <<smpl_joint_names, mixamo_bone_names, bone_map>>
jobVars == <<pc, env, npz, action, glb>>
loadVars == <<files, loaded>>
loopVars == <<stage, pending>>
vars == <<quats, input, prev, op, frames, root_translation,
          smpl_joint_names, mixamo_bone_names, bone_map,
          pc, env, npz, action, glb, files, loaded, stage, pending>>

Unset == [kind |-> "unset", den |-> 1, t |-> <<>>]
NoMap == [built |-> FALSE, map |-> <<>>]
NoNpz == [written |-> FALSE, rotations |-> <<>>, joint_names |-> <<>>,
          root_translation |-> Unset]
NoAction == [rot |-> <<>>, loc |-> <<>>, has_loc |-> FALSE]
NoGlb == [written |-> FALSE, action |-> NoAction]
NotLoaded == [status |-> "pending", is_full |-> FALSE, frames |-> <<>>]
NoEnv == [smpl_model |-> FALSE, retarget |-> FALSE, has_armature |-> FALSE,
          bones |-> <<>>]

\* ------------------------------------------------------------- inputs
AngleList == <<0, 72, 9, 30, 102, 6, 81, 15, 24, 36>>
Angles == {AngleList[k] : k \in 1..Min(NumAngles, Len(AngleList))}

Tracks(n) == [1..n -> Angles]
TrackInputs == UNION {Tracks(n) : n \in 1..MaxFrames}

Mirror(tr) == [i \in 1..Len(tr) |-> Norm(Full - tr[i])]

\* the joints whose tracks the model keeps, for the two skeleton sizes
JointsOf(n_joints) ==
    IF n_joints <= BodyJoints THEN {0, 19, 20, 21, 22, 23}
    ELSE {0, 19, 20, 21, 22, 25, 38, 54}

\* even joints move along tr, odd joints along its mirror image
TrackArray(n_joints, tr) ==
    [j \in JointsOf(n_joints) |-> IF j % 2 = 0 THEN tr ELSE Mirror(tr)]

\* the parts of the state a run does not use
CleanupIdle ==
    /\ quats = TrackArray(24, <<Identity>>)
    /\ input = quats
    /\ prev = quats
    /\ op = <<>>
RootIdle ==
    /\ frames = <<>>
    /\ root_translation = Unset
MapIdle ==
    /\ smpl_joint_names = <<>>
    /\ mixamo_bone_names = {}
    /\ bone_map = NoMap
JobIdle ==
    /\ pc = "idle"
    /\ env = NoEnv
    /\ npz = NoNpz
    /\ action = NoAction
    /\ glb = NoGlb
LoadIdle ==
    /\ files = <<>>
    /\ loaded = NotLoaded
LoopIdle ==
    /\ stage = "none"
    /\ pending = <<>>

\* ===================================================================
\* The cleanup stages, each applied to an arbitrary track
\* ===================================================================
InitCleanup ==
    /\ \E n_joints \in {24, 55}, tr \in TrackInputs :
          quats = TrackArray(n_joints, tr)
    /\ input = quats
    /\ prev = quats
    /\ op = <<>>
    /\ RootIdle
    /\ MapIdle
    /\ JobIdle
    /\ LoadIdle
    /\ LoopIdle

Apply(name, result) ==
    /\ quats' = result
    /\ prev' = quats
    /\ op' = Append(op, name)
    /\ UNCHANGED <<loopVars, loadVars, input, rootVars, mapVars, jobVars>>

ApplyFix ==
    /\ op = <<>>
    /\ Apply("fix", fix_quaternion_signs(quats))

ApplyReject ==
    /\ op = <<>>
    /\ \E deg \in {Pass1Deg, Pass2Deg} :
          Apply(IF deg = Pass1Deg THEN "reject1" ELSE "reject2",
                reject_hand_outliers(quats, deg))

ApplyLimit ==
    /\ op = <<>>
    /\ Apply("limit", limit_angular_velocity(quats, MaxDegPerFrame))

ApplyClamp ==
    /\ op \in {<<>>, <<"clamp">>}
    /\ Apply("clamp", clamp_hand_rotations(quats, MaxAngleDeg))

NextCleanup == ApplyFix \/ ApplyReject \/ ApplyLimit \/ ApplyClamp

SpecCleanup == InitCleanup /\ [][NextCleanup]_vars

HasHands == n_joints_of(quats) > BodyJoints
Frames == 1..n_frames_of(quats)

\* -------------------------------------------------------------------
\* C1: after fix_quaternion_signs, for every joint and every frame i > 0
\* the dot product of the output frames i and i-1 is not negative, and
\* frame i was negated exactly when its dot product with the already fixed
\* frame i-1 was negative.
C1_NoNegativeDot ==
    op = <<"fix">> =>
        \A j \in DOMAIN quats : \A i \in Frames \ {1} :
            /\ DotSign(quats[j][i - 1], quats[j][i]) >= 0
            /\ quats[j][i] = IF DotSign(quats[j][i - 1], input[j][i]) < 0
                             THEN Neg(input[j][i]) ELSE input[j][i]

\* a run in which frame i-1 was negated and frame i is kept only because of it
C1_Witness ==
    /\ op = <<"fix">>
    /\ \E j \in DOMAIN quats : \E i \in Frames \ {1} :
          /\ quats[j][i - 1] # input[j][i - 1]
          /\ DotSign(input[j][i - 1], input[j][i]) < 0
          /\ quats[j][i] = input[j][i]

\* -------------------------------------------------------------------
\* C2: after limit_angular_velocity on a track with hand joints, the
\* angular delta between consecutive frames of each wrist joint (20, 21)
\* is at most the cap of 30 degrees.
C2_WristDeltaCapped ==
    (op = <<"limit">> /\ HasHands) =>
        \A j \in wrist_joints : \A i \in Frames \ {1} :
            DeltaDeg(quats[j][i - 1], quats[j][i]) <= MaxDegPerFrame

\* a wrist whose input jumped by more than the cap has been limited
C2_Witness ==
    /\ op = <<"limit">> /\ HasHands
    /\ \E j \in wrist_joints : \E i \in Frames \ {1} :
          /\ DeltaDeg(input[j][i - 1], input[j][i]) > MaxDegPerFrame
          /\ DeltaDeg(quats[j][i - 1], quats[j][i]) = MaxDegPerFrame

\* -------------------------------------------------------------------
\* C3: clamp_hand_rotations applied to its own output changes no
\* quaternion.
C3_ClampIdempotent ==
    op = <<"clamp", "clamp">> => quats = prev

\* the first application clamped a frame, the second one has run
C3_Witness ==
    /\ op = <<"clamp", "clamp">>
    /\ prev # input

\* -------------------------------------------------------------------
\* C4: a wrist or finger track of at least 3 frames, at identity except
\* for one interior frame k rotated by more than the threshold, is at
\* identity in every frame after reject_hand_outliers (so frame k is within
\* 1 degree of identity).
IsSpikeTrack(tr, k, deg) ==
    /\ Len(tr) >= 3 /\ 1 < k /\ k < Len(tr)
    /\ AngleDeg(tr[k]) > deg
    /\ \A i \in 1..Len(tr) : i # k => tr[i] = Identity

RejectDeg == IF op = <<"reject1">> THEN Pass1Deg ELSE Pass2Deg

C4_SpikeRemoved ==
    (op \in {<<"reject1">>, <<"reject2">>} /\ HasHands) =>
        \A j \in hand_joints(n_joints_of(quats)) \cap DOMAIN quats :
            \A k \in Frames :
                IsSpikeTrack(input[j], k, RejectDeg) =>
                    /\ AngleDeg(quats[j][k]) <= 1
                    /\ \A i \in Frames : quats[j][i] = Identity

C4_Witness ==
    /\ op = <<"reject1">> /\ HasHands
    /\ \E k \in Frames : IsSpikeTrack(input[25], k, Pass1Deg) /\ k + 1 < Len(input[25])
    /\ \A i \in Frames : quats[25][i] = Identity

\* -------------------------------------------------------------------
\* C6: a joint track whose frames are all q or -q holds the quaternion of
\* frame 0 in every frame after fix_quaternion_signs: no consecutive pair
\* has a negative dot product and every consecutive angular delta is zero.
SameRotation(tr) ==
    \A i \in 1..Len(tr) : tr[i] \in {tr[1], Neg(tr[1])}

C6_FlatAfterFix ==
    op = <<"fix">> =>
        \A j \in DOMAIN quats :
            SameRotation(input[j]) =>
                \A i \in Frames :
                    /\ quats[j][i] = input[j][1]
                    /\ i > 1 => /\ DotSign(quats[j][i - 1], quats[j][i]) >= 0
                                /\ DeltaDeg(quats[j][i - 1], quats[j][i]) = 0

\* a track alternating between q and -q every frame has been fixed
C6_Witness ==
    /\ op = <<"fix">>
    /\ n_frames_of(quats) >= 3
    /\ \A i \in Frames \ {1} : input[20][i] = Neg(input[20][i - 1])
    /\ \A i \in Frames : quats[20][i] = input[20][1]

\* ===================================================================
\* The root translation estimator, applied to arbitrary frame metadata
\* ===================================================================
MaxRootFrames == 5

Cameras == {None, <<1, 0, 0>>, <<2, 1, -1>>, <<0, 0, 0>>}
Bboxes  == {[bbox_top_left |-> None, bbox_scale_ratio |-> None],
            [bbox_top_left |-> <<0, 0>>, bbox_scale_ratio |-> <<1>>],
            [bbox_top_left |-> <<3, -6>>, bbox_scale_ratio |-> <<1>>],
            [bbox_top_left |-> <<0, 0>>, bbox_scale_ratio |-> <<2>>]}
FrameMetas ==
    {[camera |-> c, bbox_top_left |-> b.bbox_top_left,
      bbox_scale_ratio |-> b.bbox_scale_ratio] : c \in Cameras, b \in Bboxes}

\* sequences of 1 .. MaxRootFrames frames over two frame records, the first
\* frame holding the first record
MetaInputs ==
    UNION {{[i \in 1..n |-> IF i = 1 \/ i \in alt THEN a ELSE b] :
                a \in FrameMetas, b \in FrameMetas, alt \in SUBSET (2..n)} :
           n \in 1..MaxRootFrames}

InitRoot ==
    /\ frames \in MetaInputs
    /\ root_translation = Unset
    /\ CleanupIdle
    /\ MapIdle
    /\ JobIdle
    /\ LoadIdle
    /\ LoopIdle

ApplyExtract ==
    /\ root_translation = Unset
    /\ root_translation' = extract_root_translation(frames)
    /\ UNCHANGED <<loopVars, loadVars, frames, cleanupVars, mapVars, jobVars>>

NextRoot == ApplyExtract

SpecRoot == InitRoot /\ [][NextRoot]_vars

IsTrack(rt) == rt.kind = "track"
AllZero(rt) ==
    /\ IsTrack(rt)
    /\ rt.den # 0
    /\ \A i \in 1..Len(rt.t) : rt.t[i] = <<0, 0, 0>>

ConstantCamera ==
    \A i \in 1..Len(frames) : frames[i].camera # None /\ frames[i].camera = frames[1].camera
FallbackMode ==
    frames[1].bbox_top_left = None \/ frames[1].bbox_scale_ratio = None
ConstantBbox ==
    \A i \in 1..Len(frames) :
        /\ frames[i].bbox_top_left # None /\ frames[i].bbox_scale_ratio # None
        /\ frames[i].bbox_top_left = frames[1].bbox_top_left
        /\ frames[i].bbox_scale_ratio = frames[1].bbox_scale_ratio

NumBones == 9
BoneList == <<"Spine1", "Chest", "LeftHandIndex1", "LeftIndex1", "Spine2",
              "UpperChest", "Jaw", "RightHandThumb3", "Hips", "LeftHand",
              "LeftHandEnd">>
TargetBones == {BoneList[k] : k \in 1..Min(NumBones, Len(BoneList))}

InitMap ==
    /\ smpl_joint_names \in {SMPLX_JOINT_NAMES, SMPL_JOINT_NAMES}
    /\ mixamo_bone_names \in SUBSET TargetBones
    /\ bone_map = NoMap
    /\ CleanupIdle
    /\ RootIdle
    /\ JobIdle
    /\ LoadIdle
    /\ LoopIdle

ApplyBuild ==
    /\ ~bone_map.built
    /\ bone_map' = [built |-> TRUE,
                    map   |-> build_bone_mapping(smpl_joint_names, mixamo_bone_names)]
    /\ UNCHANGED <<loopVars, loadVars, smpl_joint_names, mixamo_bone_names, cleanupVars, rootVars, jobVars>>

NextMap == ApplyBuild

SpecMap == InitMap /\ [][NextMap]_vars

\* the bones the three rules propose for a name, in rule order
RenameRule(name) ==
    IF name = "Chest" THEN <<"Spine1">>
    ELSE IF name = "UpperChest" THEN <<"Spine2">>
    ELSE <<>>
ExactRule(name) == <<name>>
FingerRule(name) ==
    LET hits == {<<s, f, d>> \in {"Left", "Right"}
                                 \X {"Thumb", "Index", "Middle", "Ring", "Pinky"}
                                 \X {"1", "2", "3"} : name = s \o f \o d}
    IN  IF hits = {} THEN <<>>
        ELSE LET h == CHOOSE x \in hits : TRUE
             IN  <<h[1] \o "Hand" \o h[2] \o h[3]>>
Proposals(name) == RenameRule(name) \o ExactRule(name) \o FingerRule(name)
IndexOf(names, name) == CHOOSE i \in 0..(Len(names) - 1) : names[i + 1] = name

\* -------------------------------------------------------------------
\* C7: build_bone_mapping gives each non-skipped source joint the bone of the
\* first rule, in the order rename table, exact name, finger pattern, whose
\* bone is in the target set, and no bone when no rule has one: "Chest" goes
\* to "Spine1" when the target has "Spine1" and "Chest", "LeftIndex1" goes to
\* "LeftHandIndex1" when the target has "LeftHandIndex1" and not "LeftIndex1";
\* every mapped value is a target bone.
C7_FirstRuleInOrder ==
    bone_map.built =>
        /\ \A idx \in 0..(Len(smpl_joint_names) - 1) :
              LET name == smpl_joint_names[idx + 1]
                  p    == Proposals(name)
                  ok   == {k \in 1..Len(p) : p[k] \in mixamo_bone_names}
              IN  name \notin {"Jaw", "LeftEye", "RightEye"} =>
                     IF ok = {} THEN idx \notin DOMAIN bone_map.map
                     ELSE /\ idx \in DOMAIN bone_map.map
                          /\ \E k \in ok : /\ bone_map.map[idx] = p[k]
                                           /\ \A l \in ok : k <= l
        /\ {"Spine1", "Chest"} \subseteq mixamo_bone_names =>
              bone_map.map[IndexOf(smpl_joint_names, "Chest")] = "Spine1"
        /\ (/\ "LeftHandIndex1" \in mixamo_bone_names
            /\ "LeftIndex1" \notin mixamo_bone_names
            /\ Len(smpl_joint_names) > BodyJoints) =>
              bone_map.map[IndexOf(smpl_joint_names, "LeftIndex1")] = "LeftHandIndex1"
        /\ \A idx \in DOMAIN bone_map.map : bone_map.map[idx] \in mixamo_bone_names

\* the 55-joint skeleton mapped onto a target holding "Spine1", "Chest" and
\* "LeftHandIndex1" but not "LeftIndex1"
C7_Witness ==
    /\ bone_map.built
    /\ Len(smpl_joint_names) > BodyJoints
    /\ {"Spine1", "Chest", "LeftHandIndex1"} \subseteq mixamo_bone_names
    /\ "LeftIndex1" \notin mixamo_bone_names
    /\ bone_map.map[6] = "Spine1"
    /\ bone_map.map[25] = "LeftHandIndex1"

\* ===================================================================
\* The two conversions, run one after the other:
\* pkl_to_npz.py main (prediction files -> .npz), then npz_to_glb.py main
\* (.npz -> .glb).  quats holds the rotation matrices (as angles) until the
\* normalizer has run, the quaternions afterwards.
\* ===================================================================
MaxJobFrames == 5
NumJobAngles == 3

JobAngleList == <<0, 56, 30, 20>>
JobAngles == {JobAngleList[k] : k \in 1..Min(NumJobAngles, Len(JobAngleList))}
ShortTracks == UNION {[1..n -> JobAngles] : n \in 0..MaxJobFrames}

\* sequences long enough for the windows 7, 9 and 11: a joint turning by the
\* same angle from frame to frame
LongLengths == {7, 9, 11}
Spin(n, first, step) == [i \in 1..n |-> (first + (i - 1) * step) % Half]
LongTracks ==
    {Spin(n, first, step) : n \in LongLengths, first \in JobAngles,
                            step \in JobAngles}
JobTracks == ShortTracks \cup LongTracks

MirrorAngle(tr) == [i \in 1..Len(tr) |-> (Half - tr[i]) % Half]

\* the rotation matrices load_pkl_frames returns: in the 55-joint mode Jaw
\* and the eyes are set to the identity
RotmatArray(n_joints, tr) ==
    [j \in JointsOf(n_joints) |->
        IF n_joints > BodyJoints /\ j \in 22..24
        THEN [i \in 1..Len(tr) |-> Identity]
        ELSE IF j % 2 = 0 THEN tr ELSE MirrorAngle(tr)]

\* the camera and bbox fields of n frames: no camera, one camera and bbox,
\* one camera without bbox, the camera missing in the last frame
JobMetas(n) ==
    LET with(c, b) == [camera |-> c, bbox_top_left |-> b.bbox_top_left,
                       bbox_scale_ratio |-> b.bbox_scale_ratio]
        nobox == [bbox_top_left |-> None, bbox_scale_ratio |-> None]
        box   == [bbox_top_left |-> <<3, -6>>, bbox_scale_ratio |-> <<1>>]
    IN  {[i \in 1..n |-> with(None, nobox)],
         [i \in 1..n |-> with(<<2, 1, -1>>, box)],
         [i \in 1..n |-> with(<<2, i, -1>>, nobox)],
         [i \in 1..n |-> with(IF i = n /\ n > 1 THEN None ELSE <<1, 0, 0>>, nobox)]}

\* the tracks that are run with every camera and bbox input
RichTracks == {tr \in JobTracks : \A i \in 1..Len(tr) : tr[i] = Identity}

\* the target skeletons of the FBX files
Bone(rest, parent) == [rest |-> rest, parent |-> parent]
Armatures ==
    {   ("Hips" :> Bone(18, ""))
     @@ ("LeftForeArm" :> Bone(130, "Hips"))
     @@ ("RightForeArm" :> Bone(10, "Hips"))
     @@ ("LeftHand" :> Bone(130, "LeftForeArm"))
     @@ ("RightHand" :> Bone(25, "RightForeArm"))
     @@ ("LeftHandIndex1" :> Bone(130, "LeftHand"))
     @@ ("LeftHandThumb2" :> Bone(50, "LeftHand"))
     @@ ("RightHandThumb3" :> Bone(25, "RightHand")),
        ("LeftHand" :> Bone(40, ""))
     @@ ("LeftHandIndex1" :> Bone(40, "LeftHand"))
     @@ ("RightForeArm" :> Bone(7, "LeftHand")),
        ("Root" :> Bone(0, "")) }

InitJob ==
    /\ \E n_joints \in {24, 55}, tr \in JobTracks :
          /\ input = RotmatArray(n_joints, tr)
          /\ frames \in IF tr \in RichTracks THEN JobMetas(Len(tr))
                        ELSE {[i \in 1..Len(tr) |->
                                 [camera |-> <<2, 1, -1>>,
                                  bbox_top_left |-> <<3, -6>>,
                                  bbox_scale_ratio |-> <<1>>]]}
    /\ quats = input
    /\ prev = input
    /\ op = <<>>
    /\ root_translation = Unset
    /\ MapIdle
    /\ pc = "start"
    /\ env = NoEnv
    /\ npz = NoNpz
    /\ action = NoAction
    /\ glb = NoGlb
    /\ LoadIdle
    /\ LoopIdle

is_full == n_joints_of(input) > BodyJoints

\* a stage of the rotation pipeline
Stage(from, to, result) ==
    /\ pc = from
    /\ pc' = to
    /\ op' = Append(op, to)
    /\ quats' = result
    /\ prev' = quats
    /\ UNCHANGED <<loopVars, loadVars, input, frames, root_translation, mapVars, env, npz,
                   action, glb>>

\* a step that leaves the rotations alone
Step(from, to) ==
    /\ pc = from
    /\ pc' = to
    /\ op' = IF to \in {"failed_npz", "failed_glb"} THEN op ELSE Append(op, to)
    /\ UNCHANGED <<loopVars, loadVars, quats, prev, input, frames>>

\* load_pkl_frames; sys.exit(1) when no frame was loaded
LoadFrames ==
    /\ Step("start", IF n_frames_of(input) = 0 THEN "failed_npz" ELSE "loaded")
    /\ UNCHANGED <<root_translation, mapVars, env, npz, action, glb>>

Normalize == Stage("loaded", "normalized", rotmats_to_quats(quats))

FixSigns == Stage("normalized", "fixed", fix_quaternion_signs(quats))

RejectPass1 ==
    /\ is_full
    /\ Stage("fixed", "rejected1", reject_hand_outliers(quats, Pass1Deg))

RejectPass2 == Stage("rejected1", "rejected2", reject_hand_outliers(quats, Pass2Deg))

LimitVelocity ==
    Stage("rejected2", "limited", limit_angular_velocity(quats, MaxDegPerFrame))

ClampRotations ==
    Stage("limited", "clamped", clamp_hand_rotations(quats, MaxAngleDeg))

\* the smoother called before the rotation clamp
Smooth_before_clamp ==
    Stage(IF is_full THEN "limited" ELSE "fixed", "smoothed",
          smooth_quaternions(quats, 5, 11))

Smooth ==
    Stage(IF is_full THEN "clamped" ELSE "fixed", "smoothed",
          smooth_quaternions(quats, 5, 11))

RootTranslation ==
    LET rt == extract_root_translation(frames)
    IN  /\ Step("smoothed", IF rt = Raised THEN "failed_npz" ELSE "translated")
        /\ root_translation' = IF rt = Raised THEN root_translation ELSE rt
        /\ UNCHANGED <<mapVars, env, npz, action, glb>>

\* smplx_forward_pass / smpl_forward_pass: fails without the body model
ForwardPass ==
    \E smpl_model \in BOOLEAN :
        /\ Step("translated", IF smpl_model THEN "posed" ELSE "failed_npz")
        /\ env' = [env EXCEPT !.smpl_model = smpl_model]
        /\ UNCHANGED <<root_translation, mapVars, npz, action, glb>>

SaveNpz ==
    /\ Step("posed", "saved")
    /\ npz' = [written |-> TRUE, rotations |-> quats,
               joint_names |-> IF is_full THEN SMPLX_JOINT_NAMES
                               ELSE SMPL_JOINT_NAMES,
               root_translation |-> root_translation]
    /\ UNCHANGED <<root_translation, mapVars, env, action, glb>>

\* np.load and the scaling of the root translation; --model given or not
LoadNpz ==
    \E retarget \in BOOLEAN :
        /\ pc = "saved"
        /\ pc' = "npz_loaded"
        /\ op' = Append(op, "npz_loaded")
        /\ quats' = npz.rotations
        /\ prev' = quats
        /\ smpl_joint_names' = npz.joint_names
        /\ root_translation' = scale_translation(npz.root_translation)
        /\ env' = [env EXCEPT !.retarget = retarget]
        /\ UNCHANGED <<loopVars, loadVars, input, frames, mixamo_bone_names, bone_map, npz,
                       action, glb>>

AddHandMean ==
    /\ env.retarget /\ n_joints_of(quats) > BodyJoints
    /\ Stage("npz_loaded", "hand_mean",
             add_hand_mean_for_retarget(quats, smpl_joint_names))

YupToZup ==
    /\ pc = IF env.retarget /\ n_joints_of(quats) > BodyJoints
            THEN "hand_mean" ELSE "npz_loaded"
    /\ pc' = "zup"
    /\ op' = Append(op, "zup")
    /\ quats' = yup_to_zup_quaternions(quats)
    /\ prev' = quats
    /\ root_translation' = yup_to_zup_positions(root_translation)
    /\ UNCHANGED <<loopVars, loadVars, input, frames, mapVars, env, npz, action, glb>>

\* import_mixamo_fbx: RuntimeError when the file holds no armature
ImportFbx ==
    /\ env.retarget
    /\ \/ /\ Step("zup", "failed_glb")
          /\ UNCHANGED <<root_translation, mapVars, env, npz, action, glb>>
       \/ \E bones \in Armatures :
             /\ Step("zup", "imported")
             /\ env' = [env EXCEPT !.has_armature = TRUE, !.bones = bones]
             /\ mixamo_bone_names' = DOMAIN bones
             /\ UNCHANGED <<root_translation, smpl_joint_names, bone_map,
                            npz, action, glb>>

Retarget ==
    /\ Step("imported", "retargeted")
    /\ bone_map' = [built |-> TRUE,
                    map |-> build_bone_mapping(smpl_joint_names, DOMAIN env.bones)]
    /\ action' = retarget_to_mixamo(env.bones, quats, smpl_joint_names,
                                    root_translation)
    /\ UNCHANGED <<root_translation, smpl_joint_names, mixamo_bone_names,
                   env, npz, glb>>

\* SMPL mode: create_mesh .. keyframe_animation
BuildSmplScene ==
    /\ ~env.retarget
    /\ Step("zup", "keyframed")
    /\ action' = keyframe_animation(quats, smpl_joint_names, root_translation)
    /\ UNCHANGED <<root_translation, mapVars, env, npz, glb>>

ExportGlb ==
    /\ \/ Step("retargeted", "exported")
       \/ Step("keyframed", "exported")
    /\ glb' = [written |-> TRUE, action |-> action]
    /\ UNCHANGED <<root_translation, mapVars, env, npz, action>>

Next ==
    \/ LoadFrames \/ Normalize \/ FixSigns \/ RejectPass1 \/ RejectPass2
    \/ LimitVelocity \/ ClampRotations \/ Smooth \/ RootTranslation
    \/ ForwardPass \/ SaveNpz \/ LoadNpz \/ AddHandMean \/ YupToZup
    \/ ImportFbx \/ Retarget \/ BuildSmplScene \/ ExportGlb

Spec == InitJob /\ [][Next]_vars

\* -------------------------------------------------------------------
\* C8: a joint retargeted with the rest-local formula whose rest
\* orientation equals its parent's takes an identity source rotation to an
\* identity target rotation, in every frame.
RestLocalJoint(idx) ==
    /\ idx \in DOMAIN action.rot
    /\ idx \in _HAND_INDICES
    /\ env.bones[action.rot[idx].bone].parent # ""
SameRestAsParent(idx) ==
    LET b == env.bones[action.rot[idx].bone]
    IN  b.rest = env.bones[b.parent].rest

C8_IdentityStaysIdentity ==
    (env.retarget /\ pc \in {"retargeted", "exported"}) =>
        \A idx \in DOMAIN action.rot :
            (RestLocalJoint(idx) /\ SameRestAsParent(idx)) =>
                \A frame \in Frames :
                    quats[idx][frame] = Identity
                        => action.rot[idx].keys[frame] = Identity

\* a wrist or finger bone whose rest orientation is its parent's and is not
\* the identity, retargeted from a track of several identity rotations
C8_Witness ==
    /\ pc = "retargeted"
    /\ n_frames_of(quats) >= 3
    /\ \E idx \in DOMAIN action.rot :
          /\ RestLocalJoint(idx) /\ SameRestAsParent(idx)
          /\ env.bones[action.rot[idx].bone].rest \notin {Identity, Half}
          /\ \A frame \in Frames :
                /\ quats[idx][frame] = Identity
                /\ action.rot[idx].keys[frame] = Identity

\* -------------------------------------------------------------------
\* C9: after the whole cleanup pipeline (normalize, continuity fix, the two
\* outlier rejections, velocity limit, clamp, smooth) every quaternion of
\* every frame and joint is a unit quaternion, in tracks too short to be
\* smoothed and in frames repaired by interpolation too; an .npz file holds
\* such rotations only.
IsUnit(q) == q \in 0..(Full - 1)
AllUnit(rotations) ==
    \A j \in DOMAIN rotations :
        \A i \in 1..Len(rotations[j]) : IsUnit(rotations[j][i])

C9_UnitAfterPipeline ==
    /\ pc \in {"smoothed", "translated", "posed", "saved"} => AllUnit(quats)
    /\ npz.written => AllUnit(npz.rotations)

\* a 55-joint sequence long enough to be smoothed, in which the first
\* outlier rejection repaired a hand frame and the smoother moved a track
C9_Witness ==
    /\ pc = "smoothed"
    /\ is_full
    /\ n_frames_of(quats) >= 5
    /\ LET fixed == fix_quaternion_signs(rotmats_to_quats(input))
       IN  reject_hand_outliers(fixed, Pass1Deg) # fixed
    /\ prev # quats
    /\ AllUnit(quats)

\* -------------------------------------------------------------------
\* C10: a conversion hands on a complete output or none.  A file is written
\* only after every stage of its conversion has run, over all the frames; a
\* conversion that failed has written no file; and every rotation and
\* location channel of a written retargeted .glb holds a computed value in
\* every frame.
NpzStages ==
    IF is_full
    THEN <<"loaded", "normalized", "fixed", "rejected1", "rejected2",
           "limited", "clamped", "smoothed", "translated", "posed", "saved">>
    ELSE <<"loaded", "normalized", "fixed", "smoothed", "translated",
           "posed", "saved">>
GlbStages ==
    <<"npz_loaded">>
    \o (IF env.retarget /\ is_full THEN <<"hand_mean">> ELSE <<>>)
    \o <<"zup">>
    \o (IF env.retarget THEN <<"imported", "retargeted">> ELSE <<"keyframed">>)
    \o <<"exported">>
IsPrefix(a, b) == Len(a) <= Len(b) /\ SubSeq(b, 1, Len(a)) = a
WholeSequence(rotations) ==
    \A j \in DOMAIN rotations : Len(rotations[j]) = n_frames_of(input)
Filled(act) ==
    /\ \A idx \in DOMAIN act.rot :
          /\ Len(act.rot[idx].keys) = n_frames_of(input)
          /\ \A frame \in 1..Len(act.rot[idx].keys) :
                act.rot[idx].keys[frame] # Unfilled
    /\ act.has_loc => Len(act.loc) = n_frames_of(input)

C10_CompleteOrNone ==
    /\ npz.written => IsPrefix(NpzStages, op) /\ WholeSequence(npz.rotations)
    /\ glb.written => op = NpzStages \o GlbStages
    /\ pc = "failed_npz" => ~npz.written /\ ~glb.written
    /\ pc = "failed_glb" => ~glb.written
    /\ (glb.written /\ env.retarget) => Filled(glb.action)

\* a written retargeted .glb of several frames with the channel of a root
\* bone, the channels of wrist and finger bones and the location channel
C10_Witness ==
    /\ glb.written
    /\ env.retarget
    /\ n_frames_of(input) >= 3
    /\ glb.action.has_loc
    /\ \E idx \in DOMAIN glb.action.rot :
          env.bones[glb.action.rot[idx].bone].parent = ""
    /\ \E idx \in DOMAIN glb.action.rot : RestLocalJoint(idx)
    /\ Filled(glb.action)

\* -------------------------------------------------------------------
\* C11 as stated: when no source joint maps to a target bone (the bone
\* mapping is empty) retargeting fails with an error, and no animation is
\* exported.
EmptyMapping == bone_map.built /\ DOMAIN bone_map.map = {}

C11_EmptyMappingFails ==
    EmptyMapping => (pc # "exported" /\ ~glb.written)

\* ===================================================================
\* load_pkl_frames, applied to an arbitrary directory of prediction files
\* ===================================================================
MaxFiles == 3

\* a prediction file: whether pred_output_list is absent, empty or holds
\* one prediction; which body rotation key the prediction has; whether it
\* has the hand pose keys; id is the file's place in the sorted directory
FileRecords(id) ==
    {[id |-> id, preds |-> p, rotation |-> "none", hands |-> FALSE] :
        p \in {"absent", "empty"}}
    \cup {[id |-> id, preds |-> "one", rotation |-> r, hands |-> h] :
            r \in {"pred_rotmat", "pred_body_pose", "none"}, h \in BOOLEAN}
FileInputs ==
    UNION {{fs \in [1..n -> UNION {FileRecords(id) : id \in 1..n}] :
               \A i \in 1..n : fs[i].id = i} : n \in 0..MaxFiles}

\* the loop over the files: a file without predictions or without body
\* rotations is skipped
RECURSIVE load_loop(_, _, _)
load_loop(fs, full, i) ==
    IF i > Len(fs) THEN <<>>
    ELSE IF fs[i].preds # "one" \/ fs[i].rotation = "none"
         THEN load_loop(fs, full, i + 1)
         ELSE <<[id |-> fs[i].id,
                 n_joints |-> IF full THEN 55 ELSE BodyJoints,
                 hands |-> full /\ fs[i].hands]>>
              \o load_loop(fs, full, i + 1)

\* first_data.get("pred_output_list", [{}])[0] raises IndexError on an
\* empty list
load_pkl_frames(fs) ==
    IF fs = <<>>
    THEN [status |-> "FileNotFoundError", is_full |-> FALSE, frames |-> <<>>]
    ELSE IF fs[1].preds = "empty"
    THEN [status |-> "IndexError", is_full |-> FALSE, frames |-> <<>>]
    ELSE LET full == fs[1].preds = "one" /\ fs[1].hands
         IN  [status |-> "returned", is_full |-> full,
              frames |-> load_loop(fs, full, 1)]

InitLoad ==
    /\ files \in FileInputs
    /\ loaded = NotLoaded
    /\ CleanupIdle
    /\ RootIdle
    /\ MapIdle
    /\ JobIdle
    /\ LoopIdle

ApplyLoad ==
    /\ loaded = NotLoaded
    /\ loaded' = load_pkl_frames(files)
    /\ UNCHANGED <<loopVars, files, cleanupVars, rootVars, mapVars, jobVars>>

NextLoad == ApplyLoad

SpecLoad == InitLoad /\ [][NextLoad]_vars

\* -------------------------------------------------------------------
\* C12 as stated: a file that has no prediction entry or no body rotation
\* data is dropped and loading goes on; wherever the bad file stands, the
\* first place included, the frames returned are exactly the good files in
\* their order, and the load does not abort.
GoodRecord(f) == f.preds = "one" /\ f.rotation # "none"
Ids(rs) == [i \in 1..Len(rs) |-> rs[i].id]

C12_BadRecordsDropped ==
    (loaded # NotLoaded /\ files # <<>>) =>
        /\ loaded.status = "returned"
        /\ Ids(loaded.frames) = Ids(SelectSeq(files, GoodRecord))

\* -------------------------------------------------------------------
\* C13 as stated: a quaternion that clamp_hand_rotations changes (angle
\* above the maximum) comes out with exactly the maximum angle, its vector
\* part pointing the way the input's did and its w of the same sign as the
\* input's w; a quaternion at or under the maximum is left unchanged.
SignW(q) == DotSign(Identity, q)
SignX(q) == DotSign(Quarter, q)

C13_ClampKeepsAxisAndSign ==
    (op = <<"clamp">> /\ HasHands) =>
        \A j \in hand_joints(n_joints_of(quats)) \cap DOMAIN quats :
            \A i \in Frames :
                IF AngleDeg(prev[j][i]) > MaxAngleDeg
                THEN /\ AngleDeg(quats[j][i]) = MaxAngleDeg
                     /\ SignX(quats[j][i]) = SignX(prev[j][i])
                     /\ SignW(quats[j][i]) = SignW(prev[j][i])
                ELSE quats[j][i] = prev[j][i]

\* -------------------------------------------------------------------
\* C14 as stated: on a track of N frames every joint is filtered with its
\* class default window clamped to the largest odd number <= N whenever
\* N >= 3, and is left unsmoothed only when N < 3.
BodyWindow == 5
HandWindow == 11
LargestOdd(n) == CHOOSE k \in (n - 1)..n : k % 2 = 1
ClassWindow(j) == IF j >= 20 THEN HandWindow ELSE BodyWindow
ClampedWindow(j, n) == Min(ClassWindow(j), LargestOdd(n))
SmoothedWith(j, w) ==
    /\ smooth_window(j, n_frames_of(prev), BodyWindow, HandWindow) = w
    /\ quats[j] = IF w = 0 THEN prev[j] ELSE smooth_track(prev[j], w)

ParentRestOf(bone) ==
    IF env.bones[bone].parent = "" THEN Identity
    ELSE env.bones[env.bones[bone].parent].rest

C15_FormulaByJointClass ==
    (env.retarget /\ pc \in {"retargeted", "exported"}) =>
        \A idx \in DOMAIN action.rot :
            \A frame \in Frames :
                LET bone == action.rot[idx].bone
                    br   == env.bones[bone].rest
                IN  action.rot[idx].keys[frame] =
                        IF idx \in _HAND_INDICES
                        THEN rest_local(br, ParentRestOf(bone), quats[idx][frame])
                        ELSE conjugation(br, quats[idx][frame])

\* -------------------------------------------------------------------
\* C16: build_bone_mapping never maps Jaw, LeftEye or RightEye, not even
\* onto a target bone of that very name; a joint for which the target has
\* no bone is left out of the mapping; the build completes on every input
\* and maps every other joint for which the target has a bone.
SkipSet == {"Jaw", "LeftEye", "RightEye"}
Resolvable(name) ==
    \E k \in 1..Len(Proposals(name)) : Proposals(name)[k] \in mixamo_bone_names

C16_SkipAndOmit ==
    /\ ~bone_map.built => ENABLED ApplyBuild
    /\ bone_map.built =>
          \A idx \in 0..(Len(smpl_joint_names) - 1) :
              LET name == smpl_joint_names[idx + 1]
              IN  idx \in DOMAIN bone_map.map
                     <=> (name \notin SkipSet /\ Resolvable(name))

\* the 55-joint skeleton on a target that has a bone named Jaw: Jaw is not
\* mapped, LeftUpLeg has no bone and is left out, Hips and a finger are mapped
C16_Witness ==
    /\ bone_map.built
    /\ smpl_joint_names[23] = "Jaw" /\ "Jaw" \in mixamo_bone_names
    /\ 22 \notin DOMAIN bone_map.map
    /\ ~Resolvable("LeftUpLeg") /\ 1 \notin DOMAIN bone_map.map
    /\ {0, 54} \subseteq DOMAIN bone_map.map

\* -------------------------------------------------------------------
\* C17: in one pass of reject_hand_outliers every outlier frame is replaced
\* by the interpolation between the nearest non-outlier frame before it and
\* the nearest one after it, at the fraction (idx - before) / (after -
\* before); with no non-outlier frame on one side it takes the value of the
\* nearest non-outlier frame on the other side; with none on either side it
\* is left as it was; the other frames are not touched.
RejectRan == op \in {<<"reject1">>, <<"reject2">>} /\ HasHands /\ n_frames_of(prev) >= 3
Marked(tr) ==
    {i \in 2..Len(tr) : DeltaDeg(tr[i - 1], tr[i]) > RejectDeg}
CleanBefore(tr, idx) == {k \in 1..(idx - 1) : k \notin Marked(tr)}
CleanAfter(tr, idx) == {k \in (idx + 1)..Len(tr) : k \notin Marked(tr)}
SetMin(S) == CHOOSE x \in S : \A y \in S : x <= y
Repaired(tr, idx) ==
    LET cb == CleanBefore(tr, idx)
        ca == CleanAfter(tr, idx)
    IN  IF cb = {} /\ ca = {} THEN tr[idx]
        ELSE IF cb = {} THEN tr[SetMin(ca)]
        ELSE IF ca = {} THEN tr[SetMax(cb)]
        ELSE slerp(tr[SetMax(cb)], tr[SetMin(ca)],
                   idx - SetMax(cb), SetMin(ca) - SetMax(cb))

C17_RunsInterpolated ==
    RejectRan =>
        \A j \in hand_joints(n_joints_of(quats)) \cap DOMAIN quats :
            \A idx \in Frames :
                quats[j][idx] = IF idx \in Marked(prev[j])
                                THEN Repaired(prev[j], idx)
                                ELSE prev[j][idx]

\* a hand track with an outlier between two clean frames, moved to a value
\* that is neither neighbour's, and an outlier run at the end of the track
\* that took the value of the clean frame before it
C17_Witness ==
    /\ RejectRan
    /\ \E j \in hand_joints(n_joints_of(quats)) \cap DOMAIN quats :
          /\ \E idx \in Marked(prev[j]) :
                /\ CleanAfter(prev[j], idx) # {}
                /\ quats[j][idx] \notin {prev[j][idx],
                                         prev[j][SetMax(CleanBefore(prev[j], idx))],
                                         prev[j][SetMin(CleanAfter(prev[j], idx))]}
          /\ \E idx \in Marked(prev[j]) :
                /\ CleanAfter(prev[j], idx) = {}
                /\ quats[j][idx] = prev[j][SetMax(CleanBefore(prev[j], idx))]
                /\ quats[j][idx] # prev[j][idx]

\* -------------------------------------------------------------------
\* C18: in one pass the outlier frames of a joint are exactly the frames
\* i >= 1 (counted from 0) whose angular delta to frame i-1, on the values
\* the pass started from, exceeds the threshold; whatever frame i+1 is, the
\* forward check does not change whether frame i is marked; only marked
\* frames are changed.
C18_MarkedByDeltaAlone ==
    RejectRan =>
        \A j \in hand_joints(n_joints_of(quats)) \cap DOMAIN quats :
            LET tr == prev[j]
            IN  /\ outliers_of(tr, RejectDeg) = Marked(tr)
                /\ \A i \in 2..(Len(tr) - 1) : \A v \in Angles :
                      (i \in outliers_of([tr EXCEPT ![i + 1] = v], RejectDeg))
                          <=> (i \in Marked(tr))
                /\ \A i \in Frames : quats[j][i] # tr[i] => i \in Marked(tr)

\* a pass that marked and changed a frame i whose neighbours i-1 and i+1 are
\* further apart than the threshold, and a frame whose neighbours agree
C18_Witness ==
    /\ RejectRan
    /\ \E j \in hand_joints(n_joints_of(quats)) \cap DOMAIN quats :
          \E i \in Marked(prev[j]) :
              /\ i < Len(prev[j])
              /\ DeltaDeg(prev[j][i - 1], prev[j][i + 1]) >= RejectDeg
              /\ quats[j][i] # prev[j][i]
    /\ \E j \in hand_joints(n_joints_of(quats)) \cap DOMAIN quats :
          \E i \in Marked(prev[j]) :
              /\ i < Len(prev[j])
              /\ DeltaDeg(prev[j][i - 1], prev[j][i + 1]) < RejectDeg

\* -------------------------------------------------------------------
\* C19: when no frame has camera parameters, extract_root_translation
\* returns "no root translation" and raises nothing, the conversion goes on
\* past it, and neither the .npz file nor the animation made from it holds
\* a root translation.
NoCameraAnywhere ==
    frames # <<>> /\ \A i \in 1..Len(frames) : frames[i].camera = None
PastRootTranslation ==
    \E k \in 1..Len(op) : op[k] = "translated"

C19_NoCameraNoTranslation ==
    NoCameraAnywhere =>
        /\ (pc = "failed_npz" /\ op # <<>>) => PastRootTranslation
        /\ PastRootTranslation => root_translation = NoTranslation
        /\ npz.written => npz.root_translation = NoTranslation
        /\ ~action.has_loc /\ ~glb.action.has_loc

\* frames without camera, retargeted onto an armature that has Hips: the
\* .glb is written, without a location channel
C19_Witness ==
    /\ NoCameraAnywhere
    /\ Len(frames) >= 3
    /\ npz.written /\ npz.root_translation = NoTranslation
    /\ glb.written
    /\ env.retarget /\ "Hips" \in DOMAIN env.bones
    /\ 0 \in DOMAIN glb.action.rot
    /\ ~glb.action.has_loc

\* -------------------------------------------------------------------
\* C20 as stated: in the bbox-calibrated and in the fallback mode the track
\* returned by extract_root_translation is relative to frame 0:
\* translation[0] = (0, 0, 0), and every frame's displacement is its
\* position minus the position of frame 0.
PositionMinusFirst ==
    IF FallbackMode THEN fallback_translation(frames)
    ELSE bbox_translation(frames)

C20_RelativeToFrameZero ==
    (IsTrack(root_translation) /\ root_translation.den # 0) =>
        /\ root_translation.t[1] = <<0, 0, 0>>
        /\ \A i \in 1..Len(frames) : \A c \in 1..3 :
              root_translation.t[i][c] * PositionMinusFirst.den
                  = PositionMinusFirst.t[i][c] * root_translation.den

\* -------------------------------------------------------------------
\* C21: the cleanup stages a joint receives follow from its class.  As
\* stated, for both skeleton sizes: every run that reaches the smoother has
\* taken the wrists through outlier rejection, velocity limiting and
\* rotation clamping.
StagesRun == {op[k] : k \in 1..Len(op)}
HandStages == {"rejected1", "rejected2", "limited", "clamped"}
BodyCore == {j \in DOMAIN quats : j < 20}
Wrists == {j \in DOMAIN quats : j \in wrist_joints}

C21_WristsCleanedInBothSizes ==
    pc = "smoothed" => {"rejected1", "limited", "clamped"} \subseteq StagesRun

\* C21, as the code has it: in a 55-joint run the wrist tracks are the
\* outlier rejector's, the limiter's and the clamp's results and the
\* body-core tracks leave each of these stages as they entered it; in a
\* 24-joint run none of the three stages runs, and every joint, the wrists
\* included, receives continuity fixing and smoothing only.
C21_StagesByClassAndSize ==
    /\ pc \in HandStages => n_joints_of(input) = 55
    /\ pc \in HandStages => \A j \in BodyCore : quats[j] = prev[j]
    /\ pc = "rejected1" =>
          \A j \in Wrists :
             quats[j] = IF n_frames_of(prev) < 3 THEN prev[j]
                        ELSE reject_track(prev[j], Pass1Deg)
    /\ pc = "rejected2" =>
          \A j \in Wrists :
             quats[j] = IF n_frames_of(prev) < 3 THEN prev[j]
                        ELSE reject_track(prev[j], Pass2Deg)
    /\ pc = "limited" =>
          \A j \in Wrists :
             quats[j] = IF n_frames_of(prev) < 2 THEN prev[j]
                        ELSE limit_track(prev[j], MaxDegPerFrame)
    /\ pc = "clamped" =>
          \A j \in Wrists :
             quats[j] = [i \in 1..Len(prev[j]) |->
                           clamp_quat(prev[j][i], MaxAngleDeg)]
    /\ pc = "smoothed" =>
          op = IF n_joints_of(input) = 55
               THEN <<"loaded", "normalized", "fixed", "rejected1",
                      "rejected2", "limited", "clamped", "smoothed">>
               ELSE <<"loaded", "normalized", "fixed", "smoothed">>

\* a 24-joint run at the smoother whose left wrist went in with a jump the
\* outlier rejector would have repaired
C21_Witness ==
    /\ pc = "smoothed"
    /\ n_joints_of(input) = 24
    /\ n_frames_of(input) >= 3
    /\ reject_track(prev[20], Pass1Deg) # prev[20]
    /\ StagesRun \cap HandStages = {}

\* -------------------------------------------------------------------
\* C22: on a track of at least 11 frames the smoother filters every wrist
\* and finger joint (20, 21, 25 and up) with the window 11 and every other
\* joint of the skeleton with the window 5.
C22_WindowByJointClass ==
    (pc = "smoothed" /\ n_frames_of(prev) >= HandWindow) =>
        \A j \in DOMAIN quats :
            SmoothedWith(j, IF j \in hand_joints(n_joints_of(quats))
                            THEN HandWindow ELSE BodyWindow)

\* -------------------------------------------------------------------
\* C23: the cleanup stages of a conversion run in the order normalizer,
\* continuity fixer, outlier rejection at 45 degrees, outlier rejection at
\* 35 degrees, velocity limiter, rotation clamp, smoother, root translation
\* estimator.  Each stage works on the whole track the stage before it
\* returned, none but the outlier rejector runs twice, and the file is
\* saved only after the last of them.  A 24-joint run goes from the fixer
\* to the smoother, past three stages that would return its track as it is.
CleanupOrder ==
    <<"normalized", "fixed", "rejected1", "rejected2", "limited", "clamped",
      "smoothed", "translated", "saved">>
IsCleanupStage(s) == \E k \in 1..Len(CleanupOrder) : CleanupOrder[k] = s
StageLog == SelectSeq(op, IsCleanupStage)
HandCleanup(q) ==
    clamp_hand_rotations(
        limit_angular_velocity(
            reject_hand_outliers(reject_hand_outliers(q, Pass1Deg), Pass2Deg),
            MaxDegPerFrame),
        MaxAngleDeg)

RunOrder ==
    IF n_joints_of(input) > BodyJoints THEN CleanupOrder
    ELSE <<"normalized", "fixed", "smoothed", "translated", "saved">>

FingerJoints == {j \in DOMAIN quats : j \in 25..54}
MeanOf(j) ==
    _MANO_HAND_MEAN[((j - _FINGER_JOINT_START_LEFT) % _FINGER_JOINTS_PER_HAND) + 1]
Occurrences(name) == Cardinality({k \in 1..Len(op) : op[k] = name})
Before(a, b) ==
    \A k \in 1..Len(op) : op[k] = b => \E m \in 1..(k - 1) : op[m] = a
RotationOf(q) == q % Half
MeanAdded(before, after, j, times) ==
    \A i \in 1..Len(before[j]) :
        RotationOf(after[j][i]) = RotationOf(before[j][i] + times * MeanOf(j))

C24_HandMeanOnceBeforeConversion ==
    /\ Occurrences("hand_mean") <= 1
    /\ "zup" \in StagesRun =>
          (Occurrences("hand_mean") = 1
             <=> (env.retarget /\ n_joints_of(npz.rotations) > BodyJoints))
    /\ "hand_mean" \in StagesRun =>
          Before("hand_mean", "zup") /\ Before("hand_mean", "retargeted")
    /\ pc = "hand_mean" =>
          \A j \in DOMAIN quats :
             IF j \in FingerJoints THEN MeanAdded(prev, quats, j, 1)
             ELSE quats[j] = prev[j]
    /\ pc \in {"zup", "imported"} =>
          \A j \in DOMAIN quats :
             IF j \in FingerJoints /\ env.retarget
             THEN MeanAdded(npz.rotations, quats, j, 1)
             ELSE MeanAdded(npz.rotations, quats, j, 0)

\* a retarget run of a 55-joint source past the coordinate conversion: the
\* second joint of the left thumb (38) moved by its mean, the wrist not
C24_Witness ==
    /\ pc = "zup"
    /\ env.retarget
    /\ n_frames_of(quats) >= 2
    /\ 38 \in FingerJoints
    /\ MeanOf(38) # 0
    /\ RotationOf(quats[38][2]) # RotationOf(npz.rotations[38][2])
    /\ quats[20] = npz.rotations[20]

\* -------------------------------------------------------------------
\* C25: the outlier rejector and the rotation clamp change wrist (20, 21)
\* and finger (25 and up) tracks only, the velocity limiter changes the two
\* wrist tracks only; the track of every other joint is the same before and
\* after the stage, and on a skeleton of 24 joints or fewer each of the
\* three stages returns the whole track as it was.
LastOp == op[Len(op)]
Untouched(j) == quats[j] = prev[j]

C25_OnlyHandTracksModified ==
    op # <<>> =>
       /\ LastOp \in {"reject1", "reject2", "clamp"} =>
             \A j \in DOMAIN quats :
                (j \notin {20, 21} /\ j < 25) => Untouched(j)
       /\ LastOp = "limit" =>
             \A j \in DOMAIN quats : j \notin {20, 21} => Untouched(j)
       /\ (LastOp \in {"reject1", "reject2", "clamp", "limit"}
           /\ n_joints_of(input) <= 24) => quats = prev

\* the limiter on a 55-joint track: a wrist slowed down, a finger joint
\* with the same jump of more than 30 degrees left as it was
C25_Witness ==
    /\ op = <<"limit">>
    /\ n_joints_of(input) = 55
    /\ ~Untouched(20)
    /\ Untouched(25)
    /\ \E i \in 2..Len(prev[25]) :
          DeltaDeg(prev[25][i - 1], prev[25][i]) > MaxDegPerFrame

\* ===================================================================
\* The per-joint loops of the four in-place stages, run one iteration at a
\* time with the joints taken in any order
\* ===================================================================
MaxLoopFrames == 3

LoopTrackList ==
    <<  <<0, 30, 0, 9, 30>>, <<0, 81, 9, 81, 102>>, <<6, 9, 102, 30, 0>>  >>
LoopTracks(n) == {SubSeq(LoopTrackList[k], 1, n) : k \in 1..Len(LoopTrackList)}
LoopJoints(n_joints) ==
    IF n_joints <= BodyJoints THEN {0, 20, 21, 23} ELSE {0, 20, 21, 54}
LoopStages == {"fix", "reject1", "reject2", "limit", "clamp"}

Iteration(kind, i, outliers) == [kind |-> kind, i |-> i, outliers |-> outliers]

RECURSIVE SortedSeq(_)
SortedSeq(S) ==
    IF S = {} THEN <<>>
    ELSE LET lo == CHOOSE x \in S : \A y \in S : x <= y
         IN  <<lo>> \o SortedSeq(S \ {lo})

\* the iterations the stage's loops run on joint j, in the code's order
loop_of(name, j, n_joints, n_frames) ==
    CASE name = "fix" ->
            [k \in 1..(n_frames - 1) |-> Iteration("flip", k + 1, {})]
      [] name \in {"reject1", "reject2"} ->
            IF n_joints <= BodyJoints \/ n_frames < 3
               \/ j \notin hand_joints(n_joints)
            THEN <<>>
            ELSE <<Iteration("detect", 0, {})>>
      [] name = "limit" ->
            IF n_joints <= BodyJoints \/ n_frames < 2 \/ j \notin wrist_joints
            THEN <<>>
            ELSE [k \in 1..(n_frames - 1) |-> Iteration("forward", k + 1, {})]
                 \o [k \in 1..(n_frames - 1) |->
                        Iteration("backward", n_frames - k, {})]
      [] name = "clamp" ->
            IF n_joints <= BodyJoints \/ j \notin hand_joints(n_joints)
            THEN <<>>
            ELSE [k \in 1..n_frames |-> Iteration("clamp", k, {})]

max_delta_deg_of(name) == IF name = "reject1" THEN Pass1Deg ELSE Pass2Deg

\* one iteration on the track of one joint
run_iteration(it, tr) ==
    CASE it.kind = "flip" ->
            IF DotNegative(tr[it.i], tr[it.i - 1])
            THEN [tr EXCEPT ![it.i] = Neg(tr[it.i])]
            ELSE tr
      [] it.kind = "detect" -> tr
      [] it.kind = "repair" -> repair(tr, it.outliers, it.i)
      [] it.kind = "forward" ->
            [tr EXCEPT ![it.i] = slerp_step(tr[it.i - 1], tr[it.i], MaxDegPerFrame)]
      [] it.kind = "backward" ->
            [tr EXCEPT ![it.i] = slerp_step(tr[it.i + 1], tr[it.i], MaxDegPerFrame)]
      [] it.kind = "clamp" ->
            [tr EXCEPT ![it.i] = clamp_quat(tr[it.i], MaxAngleDeg)]

\* what is left to run on the joint after the iteration: the detection loop
\* is followed by the repair of its outliers, in sorted order
iterations_after(name, it, tr, rest) ==
    IF it.kind = "detect"
    THEN LET outliers == outliers_of(tr, max_delta_deg_of(name))
             sorted   == SortedSeq(outliers)
         IN  [k \in 1..Len(sorted) |-> Iteration("repair", sorted[k], outliers)]
    ELSE rest

InitJoints ==
    /\ \E n_joints \in {24, 55}, n \in 2..MaxLoopFrames :
          input \in [LoopJoints(n_joints) -> LoopTracks(n)]
    /\ quats = input
    /\ prev = input
    /\ op = <<>>
    /\ stage \in LoopStages
    /\ pending = [j \in DOMAIN input |->
                    loop_of(stage, j, n_joints_of(input), n_frames_of(input))]
    /\ RootIdle
    /\ MapIdle
    /\ JobIdle
    /\ LoadIdle

\* the next iteration of some joint that has one left
Iterate(names) ==
    /\ stage \in names
    /\ \E j \in DOMAIN pending :
          /\ pending[j] # <<>>
          /\ LET it == Head(pending[j])
             IN  /\ quats' = [quats EXCEPT ![j] = run_iteration(it, quats[j])]
                 /\ pending' = [pending EXCEPT ![j] =
                                  iterations_after(stage, it, quats[j],
                                                   Tail(pending[j]))]
    /\ UNCHANGED <<stage, input, prev, op, rootVars, mapVars, jobVars, loadVars>>

IterateFix == Iterate({"fix"})
IterateReject == Iterate({"reject1", "reject2"})
IterateLimit == Iterate({"limit"})
IterateClamp == Iterate({"clamp"})

NextJoints == IterateFix \/ IterateReject \/ IterateLimit \/ IterateClamp

SpecJoints == InitJoints /\ [][NextJoints]_vars

\* -------------------------------------------------------------------
\* C26: in the continuity fixer, the outlier rejector, the velocity limiter
\* and the rotation clamp the output track of joint j depends on joint j's
\* input track only.  Two inputs (of one skeleton) that agree on joint j
\* give the same output for joint j, and the joints processed in any order,
\* their iterations interleaved in any way, end with the track the
\* sequential joint loop returns.
Sequential(name, q) ==
    CASE name = "fix" -> fix_quaternion_signs(q)
      [] name = "reject1" -> reject_hand_outliers(q, Pass1Deg)
      [] name = "reject2" -> reject_hand_outliers(q, Pass2Deg)
      [] name = "limit" -> limit_angular_velocity(q, MaxDegPerFrame)
      [] name = "clamp" -> clamp_hand_rotations(q, MaxAngleDeg)
NotStarted(j) ==
    pending[j] = loop_of(stage, j, n_joints_of(input), n_frames_of(input))
Done(j) == pending[j] = <<>>

C26_JointsIndependent ==
    stage \in LoopStages =>
       /\ \A j \in DOMAIN quats : Done(j) => quats[j] = Sequential(stage, input)[j]
       /\ \A j \in DOMAIN quats :
             (NotStarted(j) /\ ~Done(j)) => quats[j] = input[j]
       /\ quats = input =>
             \A other \in [DOMAIN input -> LoopTracks(n_frames_of(input))] :
                \A j \in DOMAIN input :
                   other[j] = input[j] =>
                      Sequential(stage, other)[j] = Sequential(stage, input)[j]

\* the limiter part-way through both wrists at once: each has run some of
\* its iterations and has some left, and each has been moved
C26_Witness ==
    /\ stage = "limit"
    /\ \A j \in {20, 21} :
          /\ ~Done(j) /\ ~NotStarted(j)
          /\ quats[j] # input[j]
    /\ Head(pending[20]).kind = "backward"
    /\ Head(pending[21]).kind = "forward"

\* -------------------------------------------------------------------
\* C27: the backward pass of the velocity limiter never limits a frame.
\* After the forward pass no frame is further than the cap from the frame
\* after it, so each backward step returns the frame it was given: the
\* limiter's result is the forward pass's result, frame 0 of a wrist is
\* never changed, and a correction always moves a later frame toward an
\* earlier one.
SameRotations(a, b) ==
    /\ Len(a) = Len(b)
    /\ \A i \in 1..Len(a) : RotationOf(a[i]) = RotationOf(b[i])
ForwardOnly(tr) == forward_pass(tr, 2, MaxDegPerFrame)

HandTracks == hand_joints(n_joints_of(quats)) \cap DOMAIN quats

C28_FrameZeroNeverMarked ==
    RejectRan =>
        \A j \in HandTracks :
            LET tr       == prev[j]
                n        == Len(tr)
                outliers == outliers_of(tr, RejectDeg)
                after    == after_of(outliers, 3, n)
            IN  /\ 1 \notin outliers
                /\ quats[j][1] = tr[1]
                /\ \A idx \in outliers : before_of(outliers, idx - 1) >= 1
                /\ outliers # 1..n
                /\ 2 \in outliers =>
                      quats[j][2] = IF after > n THEN tr[1]
                                    ELSE slerp(tr[1], tr[after], 1, after - 1)

\* a hand track whose frame 0 is the spike: frames 1 and 2 agree, frame 1
\* is marked for its distance to frame 0 and pulled toward it, frame 0 stays
C28_Witness ==
    /\ RejectRan
    /\ \E j \in HandTracks :
          /\ DeltaDeg(prev[j][1], prev[j][2]) > RejectDeg
          /\ DeltaDeg(prev[j][2], prev[j][3]) = 0
          /\ quats[j][1] = prev[j][1]
          /\ quats[j][2] # prev[j][2]
          /\ quats[j][2] # prev[j][1]
          /\ quats[j][3] = prev[j][3]

\* -------------------------------------------------------------------
\* C29: in one pass of the outlier rejector a frame that is not marked
\* keeps its input value, and the value that replaces a marked frame is
\* computed from unmarked frames only, never from a frame the pass has
\* already replaced: repairing the marked frames in any order gives the
\* result of the pass.
Orders(S) ==
    {s \in [1..Cardinality(S) -> S] :
        \A a, b \in 1..Cardinality(S) : a # b => s[a] # s[b]}
RECURSIVE RepairInOrder(_, _, _)
RepairInOrder(tr, outliers, order) ==
    IF order = <<>> THEN tr
    ELSE RepairInOrder(repair(tr, outliers, Head(order)), outliers, Tail(order))

C29_RepairFromCleanFramesOnly ==
    RejectRan =>
        \A j \in HandTracks :
            LET tr       == prev[j]
                n        == Len(tr)
                outliers == outliers_of(tr, RejectDeg)
            IN  /\ \A i \in (1..n) \ outliers : quats[j][i] = tr[i]
                /\ \A idx \in outliers :
                      /\ before_of(outliers, idx - 1) \notin outliers
                      /\ after_of(outliers, idx + 1, n) \notin outliers
                      /\ quats[j][idx] = repair(tr, outliers, idx)[idx]
                /\ \A order \in Orders(outliers) :
                      RepairInOrder(tr, outliers, order) = quats[j]

\* a run of two marked frames between unmarked ones, both replaced by
\* points of the one arc between the unmarked frames
C29_Witness ==
    /\ RejectRan
    /\ \E j \in HandTracks :
          /\ {2, 3} \subseteq outliers_of(prev[j], RejectDeg)
          /\ 4 \in 1..Len(prev[j]) /\ 4 \notin outliers_of(prev[j], RejectDeg)
          /\ quats[j][2] # prev[j][2]
          /\ quats[j][3] # prev[j][3]
          /\ quats[j][2] = slerp(prev[j][1], prev[j][4], 1, 3)
          /\ quats[j][3] = slerp(prev[j][1], prev[j][4], 2, 3)

\* -------------------------------------------------------------------
\* C30: for the two built-in source skeletons and any set of target bone
\* names the mapping of build_bone_mapping is injective: no two source
\* joints are mapped to one target bone, so that no bone is given two
\* animation channels.
Injective(f) == \A a, b \in DOMAIN f : a # b => f[a] # f[b]

\* every bone name a rule can produce, and the joints a bone can be given to
BoneUniverse ==
    {SMPLX_JOINT_NAMES[k] : k \in 1..Len(SMPLX_JOINT_NAMES)}
    \cup {SMPL_JOINT_NAMES[k] : k \in 1..Len(SMPL_JOINT_NAMES)}
    \cup {_SMPL_TO_MIXAMO_RENAME[n] : n \in DOMAIN _SMPL_TO_MIXAMO_RENAME}
    \cup {mixamo_finger(k) : k \in 0..29}
JointsTaking(b) ==
    {a \in 1..Len(smpl_joint_names) : resolve_joint(smpl_joint_names[a], {b}) = b}

C30_MappingInjective ==
    /\ bone_map.built => Injective(bone_map.map)
    \* the rules themselves: no bone can be given to two joints of a
    \* skeleton, whatever the target holds
    /\ (bone_map.built /\ mixamo_bone_names = {}) =>
          \A b \in BoneUniverse : Cardinality(JointsTaking(b)) <= 1

\* a target that holds two candidates of the chest and two of the left
\* index finger: each is given one bone, the second candidates stay free
C30_Witness ==
    /\ bone_map.built
    /\ Len(smpl_joint_names) > BodyJoints
    /\ {"Spine1", "Chest", "Spine2", "LeftHandIndex1", "LeftIndex1", "Hips"}
          \subseteq mixamo_bone_names
    /\ bone_map.map[6] = "Spine1"
    /\ bone_map.map[9] = "Spine2"
    /\ bone_map.map[25] = "LeftIndex1"
    /\ Cardinality({bone_map.map[idx] : idx \in DOMAIN bone_map.map})
          = Cardinality(DOMAIN bone_map.map)

====
